---- MODULE Spec2Model ----
(***************************************************************************)
(* A model of dollshare's storage and cryptography engine:                 *)
(*   src/src/cryptography.rs            encrypt / decrypt                  *)
(*   src/src/storage/backends/*.rs      Memory, Filesystem and S3 backends *)
(*   src/src/storage/mod.rs             StorageProvider dispatch           *)
(*   src/src/storage/app_storage.rs     AppStorage (the upload operations) *)
(*   src/src/routes/uploads/get.rs      GET /upload/{id}                   *)
(*                                                                         *)
(* Representation.                                                         *)
(*  - A byte of a Vec<u8> is a cell <<kind, term, mask>>: the byte is the   *)
(*    value named by (kind, term) XOR the bits in mask (a subset of 0..7). *)
(*    kind "raw" names the zero byte, so a plain byte v is                 *)
(*    <<"raw", <<>>, bits of v>>.  kind "ks" names a ChaCha20 keystream    *)
(*    byte and kind "tag" a byte of a Poly1305 tag; both are ideal: two    *)
(*    such bytes are equal only when they were computed from equal inputs. *)
(*    Flipping bit j of any byte toggles j in its mask.                    *)
(*  - A &str is a sequence of one-character strings, as_bytes() its view   *)
(*    as bytes.  The text of a decryption key is a sequence of indices     *)
(*    into the base64url alphabet (0..63); 64 stands for any character     *)
(*    outside the alphabet.                                                *)
(*  - OsRng is an ideal source: every draw is a value never drawn before   *)
(*    (the counter rng numbers the draws).                                 *)
(***************************************************************************)
EXTENDS Integers, Sequences, FiniteSets, TLC

VARIABLES
    provider,   \* AppStorage.provider: which StorageProvider variant is configured
    memory,     \* MemoryStorage.memory: DashMap<PathBuf, (Vec<u8>, SystemTime)>
    disk,       \* the file system FilesystemStorage works on: files and directories
    bucket,     \* the objects of the S3 bucket S3Storage works on
    now,        \* SystemTime::now()
    rng,        \* number of draws made from OsRng
    saved,      \* history: per id, the save_upload still in force
    written,    \* history: per path, the bytes of the backend write still in force
    resp,       \* the outcome of the last operation
    cr          \* the harness of the specification of encrypt/decrypt alone

engineVars == <<provider, memory, disk, bucket, now, rng, saved, written, resp>>

vars == <<provider, memory, disk, bucket, now, rng, saved, written, resp, cr>>

(***************************************************************************)
(* Bounds of the model.                                                    *)
(***************************************************************************)
\* the number of draws from OsRng (one per encrypt) in a behaviour
MaxRng == 3
\* the last value of the clock
MaxTime == 1
MaxSaves == 2

(***************************************************************************)
(* Results: Result<T, anyhow::Error>, plus a panic of the calling task.    *)
(***************************************************************************)
Ok(v) == [tag |-> "Ok", val |-> v, err |-> ""]
Err(e) == [tag |-> "Err", val |-> <<>>, err |-> e]
Panic(e) == [tag |-> "Panic", val |-> <<>>, err |-> e]
IsOk(r) == r.tag = "Ok"
IsErr(r) == r.tag = "Err"
IsPanic(r) == r.tag = "Panic"

\* Option<T>
Some(v) == <<v>>
None == <<>>
IsSome(o) == Len(o) = 1

(***************************************************************************)
(* Bytes.                                                                  *)
(***************************************************************************)
\* 2^j for a bit position j of a byte
Pow2(j) == <<1, 2, 4, 8, 16, 32, 64, 128>>[j + 1]

BitsOf(v) == {j \in 0..7 : (v \div Pow2(j)) % 2 = 1}

\* the function f on 1..n as a sequence held element by element
Vec(f) == f \o <<>>

RawByte(v) == <<"raw", <<>>, BitsOf(v)>>
RawBytes(s) == Vec([i \in 1..Len(s) |-> RawByte(s[i])])

\* the byte c with bit j flipped
FlipBit(c, j) == <<c[1], c[2], (c[3] \ {j}) \cup ({j} \ c[3])>>
\* the bytes s with bit j of byte i flipped
FlipAt(s, i, j) == [s EXCEPT ![i] = FlipBit(s[i], j)]

Take(s, n) == SubSeq(s, 1, n)
Drop(s, n) == SubSeq(s, n + 1, Len(s))

(***************************************************************************)
(* base64ct::Base64UrlUnpadded, the text encoding of a key                 *)
(* (cryptography.rs:35 and :46).  Three bytes make a 24-bit group that is  *)
(* written as four sextets; the text is a sequence of alphabet indices.    *)
(***************************************************************************)
\* element i of s, 0 past the end
AtOrZero(s, i) == IF i <= Len(s) THEN s[i] ELSE 0

\* the 24-bit group g (from 0) of the bytes B (integers 0..255)
ByteGroup(B, g) ==
    65536 * AtOrZero(B, 3 * g + 1) + 256 * AtOrZero(B, 3 * g + 2) + AtOrZero(B, 3 * g + 3)

\* the 24-bit group g (from 0) of the text T (sextets 0..63)
SextetGroup(T, g) ==
    262144 * AtOrZero(T, 4 * g + 1) + 4096 * AtOrZero(T, 4 * g + 2)
        + 64 * AtOrZero(T, 4 * g + 3) + AtOrZero(T, 4 * g + 4)

\* sextet pos (0..3) and byte pos (0..2) of a 24-bit group
SextetOfGroup(v, pos) ==
    CASE pos = 0 -> v \div 262144
      [] pos = 1 -> (v \div 4096) % 64
      [] pos = 2 -> (v \div 64) % 64
      [] OTHER -> v % 64
ByteOfGroup(v, pos) ==
    CASE pos = 0 -> v \div 65536
      [] pos = 1 -> (v \div 256) % 256
      [] OTHER -> v % 256

Base64UrlUnpadded_encode_string(B) ==
    Vec([k \in 1..((8 * Len(B) + 5) \div 6) |->
            SextetOfGroup(ByteGroup(B, (k - 1) \div 4), (k - 1) % 4)])

\* Decoding refuses a character outside the alphabet, a length of 1 mod 4, and a
\* last block that does not encode back to the text (validate_last_block).
Base64UrlUnpadded_decode_vec(T) ==
    IF \E i \in 1..Len(T) : T[i] \notin 0..63 THEN Err("InvalidEncoding")
    ELSE IF Len(T) % 4 = 1 THEN Err("InvalidEncoding")
    ELSE LET B == Vec([k \in 1..((6 * Len(T)) \div 8) |->
                         ByteOfGroup(SextetGroup(T, (k - 1) \div 3), (k - 1) % 3)])
         IN  IF Base64UrlUnpadded_encode_string(B) # T THEN Err("InvalidEncoding")
             ELSE Ok(B)

(***************************************************************************)
(* chacha20poly1305::ChaCha20Poly1305 (cryptography.rs:11-14), ideal.      *)
(***************************************************************************)
\* <CryptoImpl as AeadCore>::NonceSize
CRYPTO_NONCE_SIZE == 12
\* <CryptoImpl as KeySizeUser>::KeySize
CRYPTO_KEY_SIZE == 32
\* <CryptoImpl as AeadCore>::TagSize
CRYPTO_TAG_SIZE == 16

\* CryptoImpl::generate_key(&mut OsRng), draw number n: 32 bytes
generate_key(n) == Vec([i \in 1..CRYPTO_KEY_SIZE |-> (n + i) % 256])
\* CryptoImpl::generate_nonce(&mut OsRng), draw number n: 12 bytes
generate_nonce(n) == RawBytes([i \in 1..CRYPTO_NONCE_SIZE |-> (3 * n + i) % 256])

\* the key texts a request to the engine may carry: the keys of the draws, of
\* which that of draw 0 is never issued, and a text that is no key
KeysTried ==
    {Base64UrlUnpadded_encode_string(generate_key(n)) : n \in 0..MaxSaves} \cup {<<64>>}

\* Base64UrlUnpadded::decode_vec on the texts of KeysTried, computed once
DecodedKeysTried == {<<T, Base64UrlUnpadded_decode_vec(T)>> : T \in KeysTried}

\* Base64UrlUnpadded::decode_vec(key), looked up where it is tabulated
decode_vec_of(key) ==
    IF key \in KeysTried THEN (CHOOSE p \in DecodedKeysTried : p[1] = key)[2]
    ELSE Base64UrlUnpadded_decode_vec(key)

\* byte i of the message XOR byte i of the keystream of (key, nonce)
KeystreamXor(c, key, nonce, i) ==
    IF c[1] = "raw" THEN <<"ks", <<key, nonce, i>>, c[3]>>
    ELSE IF c[1] = "ks" /\ c[2] = <<key, nonce, i>> THEN <<"raw", <<>>, c[3]>>
    ELSE IF c[1] = "xor" /\ c[2][1] = <<key, nonce, i>> THEN c[2][2]
    ELSE <<"xor", <<<<key, nonce, i>>, c>>, {}>>

\* One cell of a tag.  The first cell names the tag by all it authenticates;
\* the other cells are the rest of that tag and carry their position.  A tag
\* is only ever compared whole, and the operations of the model write a blob
\* whole, cut it short or flip a bit of it: none joins the cells of two tags.
TagCell(key, nonce, aad, ct, j) ==
    IF j = 1 THEN <<"tag", <<key, nonce, aad, ct, j>>, {}>>
    ELSE <<"tag", <<<<>>, <<>>, <<>>, <<>>, j>>, {}>>

\* a tag that does not depend on the nonce
Poly1305Tag_WithoutNonce(key, nonce, aad, ct) ==
    Vec([j \in 1..CRYPTO_TAG_SIZE |-> TagCell(key, <<>>, aad, ct, j)])

\* the Poly1305 tag of (aad, ct) under the one-time key of (key, nonce)
Poly1305Tag(key, nonce, aad, ct) ==
    Vec([j \in 1..CRYPTO_TAG_SIZE |-> TagCell(key, nonce, aad, ct, j)])

\* a payload that carries no associated data (what `msg.into()` builds)
CryptoPayload_WithoutAad(msg, aad) == [msg |-> msg, aad |-> <<>>]

\* CryptoPayload { msg, aad }
CryptoPayload(msg, aad) == [msg |-> msg, aad |-> aad]

\* cipher.encrypt(&nonce, payload): the ciphertext followed by its tag
Aead_encrypt(key, nonce, payload) ==
    LET ct == Vec([i \in 1..Len(payload.msg) |-> KeystreamXor(payload.msg[i], key, nonce, i)])
    IN  ct \o Poly1305Tag(key, nonce, payload.aad, ct)

\* a cipher without authentication: the tag is dropped unverified
Aead_decrypt_Unauthenticated(key, nonce, payload) ==
    IF Len(payload.msg) < CRYPTO_TAG_SIZE THEN Err("aead::Error")
    ELSE LET ct == Take(payload.msg, Len(payload.msg) - CRYPTO_TAG_SIZE)
         IN  Ok(Vec([i \in 1..Len(ct) |-> KeystreamXor(ct[i], key, nonce, i)]))

\* cipher.decrypt(nonce, payload): the tag is verified, then the keystream removed
Aead_decrypt(key, nonce, payload) ==
    IF Len(payload.msg) < CRYPTO_TAG_SIZE THEN Err("aead::Error")
    ELSE LET ct == Take(payload.msg, Len(payload.msg) - CRYPTO_TAG_SIZE)
             tag == Drop(payload.msg, Len(payload.msg) - CRYPTO_TAG_SIZE)
         IN  IF tag # Poly1305Tag(key, nonce, payload.aad, ct) THEN Err("aead::Error")
             ELSE Ok(Vec([i \in 1..Len(ct) |-> KeystreamXor(ct[i], key, nonce, i)]))

(***************************************************************************)
(* Cryptography (cryptography.rs).                                         *)
(***************************************************************************)
\* encrypt under one key for every call instead of a key drawn afresh
encrypt_OneKey(bytes, aad, n) ==
    LET key == generate_key(1)
        nonce == generate_nonce(n)
        ciphered_bytes == Aead_encrypt(key, nonce, CryptoPayload(bytes, aad))
    IN  Ok(<<Base64UrlUnpadded_encode_string(key), nonce \o ciphered_bytes>>)

\* encrypt without the splice that puts the nonce in front
encrypt_WithoutNoncePrefix(bytes, aad, n) ==
    LET key == generate_key(n)
        nonce == generate_nonce(n)
        ciphered_bytes == Aead_encrypt(key, nonce, CryptoPayload(bytes, aad))
    IN  Ok(<<Base64UrlUnpadded_encode_string(key), ciphered_bytes>>)

\* Cryptography::encrypt with draw number n of OsRng: (key text, nonce || sealed)
encrypt(bytes, aad, n) ==
    LET key == generate_key(n)
        nonce == generate_nonce(n)
        ciphered_bytes == Aead_encrypt(key, nonce, CryptoPayload(bytes, aad))
    IN  Ok(<<Base64UrlUnpadded_encode_string(key), nonce \o ciphered_bytes>>)

\* Cryptography::decrypt.  split_at panics when bytes is shorter than the nonce.
decrypt(bytes, key, aad) ==
    IF Len(bytes) < CRYPTO_NONCE_SIZE THEN Panic("split_at: mid > len")
    ELSE LET nonce == Take(bytes, CRYPTO_NONCE_SIZE)
             encrypted_bytes == Drop(bytes, CRYPTO_NONCE_SIZE)
             decoded == decode_vec_of(key)
         IN  IF ~IsOk(decoded) THEN decoded
             ELSE IF Len(decoded.val) # CRYPTO_KEY_SIZE THEN Err("InvalidLength")
             ELSE Aead_decrypt(decoded.val, nonce, CryptoPayload(encrypted_bytes, aad))

(***************************************************************************)
(* std::path::Path.  A path is the sequence of its components, as          *)
(* Path::components() yields them: repeated separators and "." are         *)
(* dropped; a component is a sequence of characters.                       *)
(***************************************************************************)
RootDir == <<"/">>
ParentDir == <<".", ".">>
CurDir == <<".">>

RECURSIVE SplitComponents(_, _, _, _)
\* a "." is kept only as the first component of a path without a root
SplitComponents(s, i, cur, acc) ==
    LET leading == acc = <<>> /\ ~(Len(s) > 0 /\ s[1] = "/")
        pushed == IF cur = <<>> \/ (cur = CurDir /\ ~leading) THEN acc ELSE Append(acc, cur)
    IN  IF i > Len(s) THEN pushed
        ELSE IF s[i] = "/" THEN SplitComponents(s, i + 1, <<>>, pushed)
        ELSE SplitComponents(s, i + 1, Append(cur, s[i]), acc)

\* Path::new(s)
Path_new(s) ==
    (IF Len(s) > 0 /\ s[1] = "/" THEN <<RootDir>> ELSE <<>>) \o SplitComponents(s, 1, <<>>, <<>>)

Path_has_root(p) == Len(p) > 0 /\ p[1] = RootDir
\* base.join(p): an absolute p replaces base; the "." that led p is no longer
\* the first component and is dropped
Path_join(base, p) ==
    IF Path_has_root(p) THEN p
    ELSE IF base # <<>> /\ Len(p) > 0 /\ p[1] = CurDir THEN base \o Drop(p, 1)
    ELSE base \o p
Path_starts_with(p, base) == Len(base) <= Len(p) /\ Take(p, Len(base)) = base
Path_parent(p) == IF p = <<>> THEN <<>> ELSE Take(p, Len(p) - 1)
\* p.strip_prefix(base), for a p that starts with base
Path_strip_prefix(p, base) == Drop(p, Len(base))

(***************************************************************************)
(* Finite maps.                                                            *)
(***************************************************************************)
EmptyMap == [x \in {} |-> 0]
MapPut(f, k, v) == [x \in (DOMAIN f) \cup {k} |-> IF x = k THEN v ELSE f[x]]
MapRemove(f, k) == [x \in (DOMAIN f) \ {k} |-> f[x]]

\* what a backend operation yields: the world after it and its result
Outcome(w, r) == [w |-> w, res |-> r]

(***************************************************************************)
(* MemoryStorage (storage/backends/memory.rs).                             *)
(***************************************************************************)
Memory_supports_expiry == TRUE

\* a read that takes the entry out of the map
Memory_read_Taking(w, path, t) ==
    IF path \in DOMAIN w.memory
    THEN Outcome([w EXCEPT !.memory = MapRemove(w.memory, path)], Ok(Some(w.memory[path][1])))
    ELSE Outcome(w, Ok(None))

Memory_read(w, path, t) ==
    IF path \in DOMAIN w.memory
    THEN LET data == w.memory[path][1]
         IN  Outcome([w EXCEPT !.memory = MapPut(w.memory, path, <<data, t>>)], Ok(Some(data)))
    ELSE Outcome(w, Ok(None))

\* a write over the start of the entry that keeps what the old data has beyond it
Memory_write_KeepingTail(w, path, data, t) ==
    LET old == IF path \in DOMAIN w.memory THEN w.memory[path][1] ELSE <<>>
        kept == IF Len(old) > Len(data) THEN Drop(old, Len(data)) ELSE <<>>
    IN  Outcome([w EXCEPT !.memory = MapPut(w.memory, path, <<data \o kept, t>>)], Ok(<<>>))

Memory_write(w, path, data, t) ==
    Outcome([w EXCEPT !.memory = MapPut(w.memory, path, <<data, t>>)], Ok(<<>>))

Memory_delete(w, path) ==
    Outcome([w EXCEPT !.memory = MapRemove(w.memory, path)], Ok(path \in DOMAIN w.memory))

Memory_exists(w, path) == Outcome(w, Ok(path \in DOMAIN w.memory))

\* a list that returns every key of the map
Memory_list_Unfiltered(w, path) ==
    Outcome(w, Ok(DOMAIN w.memory))

Memory_list(w, path) ==
    Outcome(w, Ok({k \in DOMAIN w.memory : Path_starts_with(k, path)}))

Memory_last_access(w, path) ==
    Outcome(w, Ok(IF path \in DOMAIN w.memory THEN Some(w.memory[path][2]) ELSE None))

(***************************************************************************)
(* The file system under FilesystemStorage: disk.files maps the absolute   *)
(* path of a regular file to its data and times, disk.dirs the absolute    *)
(* path of a directory to its access time.  An absolute path is written    *)
(* without its RootDir; <<>> is the root directory.                        *)
(***************************************************************************)
\* FilesystemStorage.base_path: the canonical data directory /d
base_path == <<RootDir, <<"d">>>>

RECURSIVE Walk(_, _, _, _)
\* the file system's resolution of components i.. of comps from directory cur
Walk(d, comps, i, cur) ==
    IF i > Len(comps) THEN [ok |-> TRUE, path |-> cur, kind |-> ""]
    ELSE IF comps[i] = RootDir THEN Walk(d, comps, i + 1, <<>>)
    ELSE IF comps[i] = ParentDir THEN Walk(d, comps, i + 1, Path_parent(cur))
    ELSE LET next == Append(cur, comps[i])
         IN  IF i = Len(comps) THEN [ok |-> TRUE, path |-> next, kind |-> ""]
             ELSE IF next \in DOMAIN d.dirs THEN Walk(d, comps, i + 1, next)
             ELSE IF next \in DOMAIN d.files
                  THEN [ok |-> FALSE, path |-> <<>>, kind |-> "NotADirectory"]
                  ELSE [ok |-> FALSE, path |-> <<>>, kind |-> "NotFound"]

Resolve(d, p) == Walk(d, p, 1, <<>>)

\* fs::metadata(p)
fs_metadata(d, p) ==
    LET r == Resolve(d, p)
    IN  IF ~r.ok THEN Err(r.kind)
        ELSE IF r.path \in DOMAIN d.files
             THEN Ok([is_dir |-> FALSE, accessed |-> d.files[r.path].atime,
                      modified |-> d.files[r.path].mtime])
        ELSE IF r.path \in DOMAIN d.dirs
             THEN Ok([is_dir |-> TRUE, accessed |-> d.dirs[r.path], modified |-> d.dirs[r.path]])
        ELSE Err("NotFound")

RECURSIVE MkDirs(_, _, _, _)
\* fs::create_dir_all of the absolute path abs, prefix by prefix
MkDirs(d, abs, n, t) ==
    IF n > Len(abs) THEN [ok |-> TRUE, disk |-> d]
    ELSE LET dir == Take(abs, n)
         IN  IF dir \in DOMAIN d.files THEN [ok |-> FALSE, disk |-> d]
             ELSE IF dir \in DOMAIN d.dirs THEN MkDirs(d, abs, n + 1, t)
             ELSE MkDirs([d EXCEPT !.dirs = MapPut(d.dirs, dir, t)], abs, n + 1, t)

(***************************************************************************)
(* FilesystemStorage (storage/backends/filesystem.rs).                     *)
(***************************************************************************)
Filesystem_supports_expiry == TRUE

\* FilesystemStorage::join_to_base
join_to_base(path) ==
    IF \E i \in 1..Len(path) : path[i] = RootDir THEN Err("PermissionDenied")
    ELSE IF \E i \in 1..Len(path) : path[i] = ParentDir THEN Err("PermissionDenied")
    ELSE Ok(Path_join(base_path, path))

\* FilesystemStorage::read: the path is joined with base_path.join, not join_to_base
Filesystem_read(w, path, t) ==
    LET full == Path_join(base_path, path)
        metadata == fs_metadata(w.disk, full)
        abs == Resolve(w.disk, full).path
    IN  IF IsErr(metadata)
        THEN Outcome(w, IF metadata.err = "NotFound" THEN Ok(None) ELSE metadata)
        ELSE IF metadata.val.is_dir THEN Outcome(w, Err("IsADirectory"))
        ELSE IF ~w.disk.files[abs].writable THEN Outcome(w, Err("PermissionDenied"))
        ELSE Outcome([w EXCEPT !.disk.files[abs].atime = t], Ok(Some(w.disk.files[abs].data)))

\* FilesystemStorage::write.  fault = Some(k): the device is full after k bytes
\* of fs::write, which has truncated the file by then.
Filesystem_write(w, path, data, t, fault) ==
    LET joined == join_to_base(path)
        abs == Drop(joined.val, 1)
        made == MkDirs(w.disk, Path_parent(abs), 1, t)
        d == made.disk
        atime == IF abs \in DOMAIN d.files THEN d.files[abs].atime ELSE t
        file(bytes) == [data |-> bytes, atime |-> atime, mtime |-> t, writable |-> TRUE]
    IN  IF IsErr(joined) THEN Outcome(w, joined)
        ELSE IF ~made.ok THEN Outcome(w, Err("failed to create directories"))
        ELSE IF abs \in DOMAIN d.dirs THEN Outcome([w EXCEPT !.disk = d], Err("IsADirectory"))
        ELSE IF IsSome(fault)
             THEN Outcome([w EXCEPT !.disk = [d EXCEPT !.files =
                               MapPut(d.files, abs, file(Take(data, fault[1])))]],
                          Err("StorageFull"))
        ELSE Outcome([w EXCEPT !.disk = [d EXCEPT !.files = MapPut(d.files, abs, file(data))]],
                     Ok(<<>>))

\* FilesystemStorage::delete
Filesystem_delete(w, path) ==
    LET joined == join_to_base(path)
        r == Resolve(w.disk, joined.val)
    IN  IF IsErr(joined) THEN Outcome(w, joined)
        ELSE IF ~r.ok THEN Outcome(w, IF r.kind = "NotFound" THEN Ok(FALSE) ELSE Err(r.kind))
        ELSE IF r.path \in DOMAIN w.disk.files
             THEN Outcome([w EXCEPT !.disk.files = MapRemove(w.disk.files, r.path)], Ok(TRUE))
        ELSE IF r.path \in DOMAIN w.disk.dirs THEN Outcome(w, Err("IsADirectory"))
        ELSE Outcome(w, Ok(FALSE))

\* FilesystemStorage::exists
Filesystem_exists(w, path) ==
    LET joined == join_to_base(path)
        metadata == fs_metadata(w.disk, joined.val)
    IN  IF IsErr(joined) THEN Outcome(w, joined)
        ELSE IF IsOk(metadata) THEN Outcome(w, Ok(TRUE))
        ELSE IF metadata.err = "NotFound" THEN Outcome(w, Ok(FALSE))
        ELSE Outcome(w, metadata)

\* FilesystemStorage::list: the entries of one directory, files and directories
Filesystem_list(w, path) ==
    LET joined == join_to_base(path)
        metadata == fs_metadata(w.disk, joined.val)
        abs == Resolve(w.disk, joined.val).path
        entries == {e \in (DOMAIN w.disk.files) \cup (DOMAIN w.disk.dirs) :
                        e # <<>> /\ Path_parent(e) = abs}
    IN  IF IsErr(joined) THEN Outcome(w, joined)
        ELSE IF IsErr(metadata) THEN Outcome(w, Ok({}))
        ELSE IF ~metadata.val.is_dir THEN Outcome(w, Err("NotADirectory"))
        ELSE Outcome(w, Ok({Path_strip_prefix(<<RootDir>> \o e, base_path) : e \in entries}))

\* FilesystemStorage::last_access
Filesystem_last_access(w, path) ==
    LET joined == join_to_base(path)
        metadata == fs_metadata(w.disk, joined.val)
    IN  IF IsErr(joined) THEN Outcome(w, joined)
        ELSE IF IsErr(metadata) THEN Outcome(w, metadata)
        ELSE Outcome(w, Ok(Some(metadata.val.accessed)))

(***************************************************************************)
(* S3Storage (storage/backends/s3.rs).  bucket maps an object key, the     *)
(* path as text, to the object's bytes.                                    *)
(***************************************************************************)
\* an S3Storage that reports it can expire uploads
S3_supports_expiry_Claimed == TRUE

S3_supports_expiry == FALSE

S3_read(w, path) ==
    Outcome(w, Ok(IF path \in DOMAIN w.bucket THEN Some(w.bucket[path]) ELSE None))

S3_write(w, path, data, fault) ==
    IF IsSome(fault) THEN Outcome(w, Err("DispatchFailure"))
    ELSE Outcome([w EXCEPT !.bucket = MapPut(w.bucket, path, data)], Ok(<<>>))

S3_exists(w, path) == Outcome(w, Ok(path \in DOMAIN w.bucket))

S3_delete(w, path) ==
    IF ~S3_exists(w, path).res.val THEN Outcome(w, Ok(FALSE))
    ELSE Outcome([w EXCEPT !.bucket = MapRemove(w.bucket, path)], Ok(TRUE))

S3_list(w, path) ==
    Outcome(w, Ok({k \in DOMAIN w.bucket : Path_starts_with(k, path)}))

S3_last_access(w, path) == Outcome(w, Err("Unsupported operation"))

(***************************************************************************)
(* StorageProvider (storage/mod.rs): the dispatch on the variant.          *)
(***************************************************************************)
Provider_supports_expiry(w) ==
    CASE w.provider = "Memory" -> Memory_supports_expiry
      [] w.provider = "Filesystem" -> Filesystem_supports_expiry
      [] w.provider = "S3" -> S3_supports_expiry

Provider_read(w, path, t) ==
    CASE w.provider = "Memory" -> Memory_read(w, path, t)
      [] w.provider = "Filesystem" -> Filesystem_read(w, path, t)
      [] w.provider = "S3" -> S3_read(w, path)

Provider_write(w, path, data, t, fault) ==
    CASE w.provider = "Memory" -> Memory_write(w, path, data, t)
      [] w.provider = "Filesystem" -> Filesystem_write(w, path, data, t, fault)
      [] w.provider = "S3" -> S3_write(w, path, data, fault)

Provider_delete(w, path) ==
    CASE w.provider = "Memory" -> Memory_delete(w, path)
      [] w.provider = "Filesystem" -> Filesystem_delete(w, path)
      [] w.provider = "S3" -> S3_delete(w, path)

Provider_exists(w, path) ==
    CASE w.provider = "Memory" -> Memory_exists(w, path)
      [] w.provider = "Filesystem" -> Filesystem_exists(w, path)
      [] w.provider = "S3" -> S3_exists(w, path)

Provider_list(w, path) ==
    CASE w.provider = "Memory" -> Memory_list(w, path)
      [] w.provider = "Filesystem" -> Filesystem_list(w, path)
      [] w.provider = "S3" -> S3_list(w, path)

Provider_last_access(w, path) ==
    CASE w.provider = "Memory" -> Memory_last_access(w, path)
      [] w.provider = "Filesystem" -> Filesystem_last_access(w, path)
      [] w.provider = "S3" -> S3_last_access(w, path)

(***************************************************************************)
(* AppStorage (storage/app_storage.rs).  An id is a &str, a sequence of    *)
(* characters; id.as_bytes() is the same sequence.                         *)
(***************************************************************************)
upload_path == Path_new(<<"u", "p", "l", "o", "a", "d", "s", "/">>)

\* the path of the upload id: upload_path().join(id)
UploadPathOf(id) == Path_join(upload_path, Path_new(id))

\* get_upload that gives the access time back when decryption fails
get_upload_RefreshOnSuccess(w, id, key, t) ==
    LET r == Provider_read(w, UploadPathOf(id), t)
        dec == decrypt(r.res.val[1], key, id)
    IN  IF IsErr(r.res) THEN r
        ELSE IF ~IsSome(r.res.val) THEN Outcome(r.w, Err("file does not exist"))
        ELSE Outcome(IF IsOk(dec) THEN r.w ELSE w, dec)

\* AppStorage::get_upload
get_upload(w, id, key, t) ==
    LET r == Provider_read(w, UploadPathOf(id), t)
    IN  IF IsErr(r.res) THEN r
        ELSE IF ~IsSome(r.res.val) THEN Outcome(r.w, Err("file does not exist"))
        ELSE Outcome(r.w, decrypt(r.res.val[1], key, id))

\* AppStorage::upload_exists
upload_exists(w, id) == Provider_exists(w, UploadPathOf(id))

\* save_upload that stores the key in front of the ciphertext
save_upload_StoringKey(w, id, bytes, n, t, fault) ==
    LET e == encrypt(bytes, id, n)
        wr == Provider_write(w, UploadPathOf(id), RawBytes(generate_key(n)) \o e.val[2], t, fault)
    IN  IF IsErr(wr.res) THEN wr ELSE Outcome(wr.w, Ok(e.val[1]))

\* AppStorage::save_upload; n is the number of the draw from OsRng
save_upload(w, id, bytes, n, t, fault) ==
    LET e == encrypt(bytes, id, n)
        wr == Provider_write(w, UploadPathOf(id), e.val[2], t, fault)
    IN  IF IsErr(wr.res) THEN wr ELSE Outcome(wr.w, Ok(e.val[1]))

\* AppStorage::delete_upload
delete_upload(w, id) ==
    LET r == Provider_delete(w, UploadPathOf(id))
    IN  IF IsErr(r.res) THEN r ELSE Outcome(r.w, Ok(<<>>))

\* is_upload_expired that asks for the window to have passed strictly
is_upload_expired_Strict(w, file, expire_after, t) ==
    IF ~Provider_supports_expiry(w) THEN Ok(FALSE)
    ELSE LET la == Provider_last_access(w, file).res
         IN  IF IsErr(la) THEN la
             ELSE IF ~IsSome(la.val) THEN Err("File does not have a last access time")
             ELSE Ok(la.val[1] + expire_after < t)

\* AppStorage::is_upload_expired
is_upload_expired(w, file, expire_after, t) ==
    IF ~Provider_supports_expiry(w) THEN Ok(FALSE)
    ELSE LET la == Provider_last_access(w, file).res
         IN  IF IsErr(la) THEN la
             ELSE IF ~IsSome(la.val) THEN Err("File does not have a last access time")
             ELSE Ok(la.val[1] + expire_after <= t)

RECURSIVE SweepLoop(_, _, _, _, _)
\* the loop of remove_all_expired_uploads over paths, from its i-th element
SweepLoop(w, paths, i, expire_after, t) ==
    IF i > Len(paths) THEN Outcome(w, Ok(<<>>))
    ELSE LET expired == is_upload_expired(w, paths[i], expire_after, t)
             d == Provider_delete(w, paths[i])
         IN  IF IsErr(expired) THEN Outcome(w, expired)
             ELSE IF ~expired.val THEN SweepLoop(w, paths, i + 1, expire_after, t)
             ELSE IF IsErr(d.res) THEN d
             ELSE SweepLoop(d.w, paths, i + 1, expire_after, t)

\* the orders in which a backend may list the set S of paths
Orders(S) == {o \in [1..Cardinality(S) -> S] : \A i, j \in 1..Cardinality(S) : o[i] = o[j] => i = j}

\* AppStorage::remove_all_expired_uploads; paths is the Vec the list call returned
remove_all_expired_uploads(w, expire_after, t, paths) ==
    IF ~Provider_supports_expiry(w) THEN Outcome(w, Ok(<<>>))
    ELSE IF IsErr(Provider_list(w, upload_path).res) THEN Provider_list(w, upload_path)
    ELSE SweepLoop(w, paths, 1, expire_after, t)

\* main: the task that runs remove_all_expired_uploads every minute is spawned
\* when an expiry is configured (upload_expiry is Some) and the provider supports it
expiry_task_spawned(w, upload_expiry) ==
    IF IsSome(upload_expiry) THEN Provider_supports_expiry(w) ELSE FALSE

(***************************************************************************)
(* GET /upload/{id}?key=... (routes/uploads/get.rs) under CatchPanicLayer  *)
(* (main.rs): a panic of the handler is answered with status 500.          *)
(***************************************************************************)
Response(status, text, bytes) == [status |-> status, text |-> text, bytes |-> bytes]

DECRYPT_OR_NOT_FOUND_RESPONSE ==
    Response(404, "This file could not be displayed. Either it does not exist, or your decryption key is invalid.", <<>>)

CatchPanicResponse == Response(500, "Service panicked", <<>>)

get_upload_handler(w, id, key, t) ==
    LET ex == upload_exists(w, id)
        g == get_upload(w, id, key, t)
    IN  IF IsErr(ex.res) THEN Outcome(w, CatchPanicResponse)
        ELSE IF ~ex.res.val THEN Outcome(w, DECRYPT_OR_NOT_FOUND_RESPONSE)
        ELSE IF IsOk(g.res) THEN Outcome(g.w, Response(200, "", g.res.val))
        ELSE IF IsPanic(g.res) THEN Outcome(g.w, CatchPanicResponse)
        ELSE Outcome(g.w, DECRYPT_OR_NOT_FOUND_RESPONSE)

(***************************************************************************)
(* The values the engine's variables hold while only Cryptography runs.    *)
(***************************************************************************)
NoResp == [op |-> "none"]

EngineIdle ==
    /\ provider = "Memory"
    /\ memory = EmptyMap
    /\ disk = [files |-> EmptyMap, dirs |-> EmptyMap]
    /\ bucket = EmptyMap
    /\ now = 0
    /\ rng = 0
    /\ saved = EmptyMap
    /\ written = EmptyMap
    /\ resp = NoResp

(***************************************************************************)
(* SpecCrypto: encrypt and decrypt as pure functions.  Init draws the      *)
(* inputs, CrEncrypt applies encrypt, the Cr*Decrypt actions apply decrypt *)
(* to the ciphertext, as produced or with one bit flipped.                 *)
(***************************************************************************)
\* the byte sequences B
CrBytes == {RawBytes(<<>>), RawBytes(<<0>>), RawBytes(<<255, 7>>)}
\* the contexts A
CrAads == {<<>>, <<"a">>, <<"a", "b">>}

\* the text T with its sextet i replaced by v
WithSextet(T, i, v) == [T EXCEPT ![i] = v]

\* the key texts a caller may present for a ciphertext whose key text is key:
\* the key itself, the keys of the other draws, the key with a sextet changed,
\* with the unused bits of its last sextet set, with a character outside the
\* alphabet, cut short, and texts that are no key at all
CrKeyTexts(key) ==
    {key}
    \cup {Base64UrlUnpadded_encode_string(generate_key(n)) : n \in 0..(MaxRng + 1)}
    \cup {WithSextet(key, 1, (key[1] + 1) % 64),
          WithSextet(key, Len(key), (key[Len(key)] + 1) % 64),
          WithSextet(key, Len(key), (key[Len(key)] + 4) % 64),
          WithSextet(key, 2, 64),
          Take(key, Len(key) - 1), Take(key, 4), Take(key, 9), <<>>}

\* the key texts presented for a ciphertext that has had a bit flipped
CrFlipKeyTexts(key) ==
    {key, Base64UrlUnpadded_encode_string(generate_key(0)), Take(key, 4)}

InitCrypto ==
    /\ EngineIdle
    /\ cr \in {[stage |-> "input", bytes |-> b, aad |-> a, draw |-> n] :
                 b \in CrBytes, a \in CrAads, n \in 1..MaxRng}

CrEncrypt ==
    /\ cr.stage = "input"
    /\ LET e == encrypt(cr.bytes, cr.aad, cr.draw)
       IN  cr' = [stage |-> "encrypted", bytes |-> cr.bytes, aad |-> cr.aad, draw |-> cr.draw,
                  key |-> e.val[1], ciphertext |-> e.val[2]]
    /\ UNCHANGED engineVars

\* decrypt(ciphertext, key2, aad2)
CrDecrypt ==
    /\ cr.stage = "encrypted"
    /\ \E key2 \in CrKeyTexts(cr.key), aad2 \in CrAads :
         cr' = [stage |-> "decrypted", bytes |-> cr.bytes, aad |-> cr.aad, draw |-> cr.draw,
                key |-> cr.key, ciphertext |-> cr.ciphertext,
                key2 |-> key2, aad2 |-> aad2, flipped |-> <<>>,
                out |-> decrypt(cr.ciphertext, key2, aad2)]
    /\ UNCHANGED engineVars

\* decrypt(ciphertext with bit j of byte i flipped, key2, aad)
CrFlipDecrypt ==
    /\ cr.stage = "encrypted"
    /\ \E key2 \in CrFlipKeyTexts(cr.key), i \in 1..Len(cr.ciphertext), j \in 0..7 :
         cr' = [stage |-> "decrypted", bytes |-> cr.bytes, aad |-> cr.aad, draw |-> cr.draw,
                key |-> cr.key, ciphertext |-> cr.ciphertext,
                key2 |-> key2, aad2 |-> cr.aad, flipped |-> <<i, j>>,
                out |-> decrypt(FlipAt(cr.ciphertext, i, j), key2, cr.aad)]
    /\ UNCHANGED engineVars

NextCrypto == CrEncrypt \/ CrDecrypt \/ CrFlipDecrypt

SpecCrypto == InitCrypto /\ [][NextCrypto]_vars

\* C6: for all byte sequences B and contexts A, with (key, ciphertext) =
\* encrypt(B, A), decrypt(ciphertext, key, A) returns exactly B; the
\* ciphertext is the nonce followed by the sealed payload of B (one cell per
\* byte of B and the tag) and the key is the text encoding of the key drawn.
C6_RoundTrip ==
    /\ cr.stage \in {"encrypted", "decrypted"} =>
          /\ Take(cr.ciphertext, CRYPTO_NONCE_SIZE) = generate_nonce(cr.draw)
          /\ Drop(cr.ciphertext, CRYPTO_NONCE_SIZE) =
                Aead_encrypt(generate_key(cr.draw), generate_nonce(cr.draw),
                             CryptoPayload(cr.bytes, cr.aad))
          /\ Len(cr.ciphertext) = CRYPTO_NONCE_SIZE + Len(cr.bytes) + CRYPTO_TAG_SIZE
          /\ Base64UrlUnpadded_decode_vec(cr.key) = Ok(generate_key(cr.draw))
    /\ (cr.stage = "decrypted" /\ cr.flipped = <<>> /\ cr.key2 = cr.key /\ cr.aad2 = cr.aad) =>
          cr.out = Ok(cr.bytes)

C6_Witness ==
    /\ cr.stage = "decrypted" /\ cr.flipped = <<>> /\ cr.key2 = cr.key /\ cr.aad2 = cr.aad
    /\ Len(cr.bytes) = 2 /\ cr.aad # <<>>
    /\ cr.out = Ok(cr.bytes)

\* C4: for (k, c) = encrypt(b, a), decrypt(c, k2, a2) fails for every key
\* text k2 different from k and for every aad a2 different from a.
C4_WrongKeyOrAadFails ==
    (cr.stage = "decrypted" /\ cr.flipped = <<>> /\ (cr.key2 # cr.key \/ cr.aad2 # cr.aad)) =>
        IsErr(cr.out)

C4_Witness ==
    /\ cr.stage = "decrypted" /\ cr.flipped = <<>>
    /\ cr.key2 # cr.key /\ cr.aad2 = cr.aad
    /\ IsOk(Base64UrlUnpadded_decode_vec(cr.key2))
    /\ Len(Base64UrlUnpadded_decode_vec(cr.key2).val) = CRYPTO_KEY_SIZE
    /\ cr.out = Err("aead::Error")

\* C5: for every ciphertext produced by encrypt, flipping any single bit of
\* it, in the nonce prefix or in the sealed part, makes decrypt fail under
\* every key, the originating key included.
C5_BitFlipFails ==
    (cr.stage = "decrypted" /\ cr.flipped # <<>>) => IsErr(cr.out)

C5_Witness ==
    /\ cr.stage = "decrypted" /\ cr.flipped # <<>>
    /\ cr.flipped[1] <= CRYPTO_NONCE_SIZE
    /\ cr.key2 = cr.key
    /\ cr.out = Err("aead::Error")

(***************************************************************************)
(* Spec: the storage engine, one AppStorage over one backend, driven       *)
(* through its operations and through GET /upload/{id}.                    *)
(***************************************************************************)
Providers == {"Memory", "Filesystem", "S3"}

\* the ids uploads are saved under: file names, as create_upload_handler forms them
SaveIds == {<<"a">>, <<"b">>}
\* the ids a request may name: those of uploads, an absolute path, a
\* parent-directory traversal and the current directory
ReqIds == SaveIds \cup {<<"/", "s">>, <<".", ".">>, <<".">>}
\* the contents b
Contents == {RawBytes(<<1, 2>>), RawBytes(<<7>>)}
\* the points at which a write may run out of space: never, or before its first byte
WriteFaults == {None, Some(0)}
ExpireAfters == {0, 1}

\* a file system with the data directory and a file of another owner outside it
DiskInit ==
    [files |-> MapPut(EmptyMap, <<<<"s">>>>,
                      [data |-> RawBytes(<<5>>), atime |-> 0, mtime |-> 0, writable |-> TRUE]),
     dirs |-> MapPut(MapPut(EmptyMap, <<>>, 0), Drop(base_path, 1), 0)]

World == [provider |-> provider, memory |-> memory, disk |-> disk, bucket |-> bucket]

\* the backend's state becomes that of the outcome o
Becomes(o) ==
    /\ provider' = o.w.provider
    /\ memory' = o.w.memory
    /\ disk' = o.w.disk
    /\ bucket' = o.w.bucket

\* the entries the backend of w holds in its own namespace, as (path, data)
Entries(w) ==
    CASE w.provider = "Memory" -> {<<k, w.memory[k][1]>> : k \in DOMAIN w.memory}
      [] w.provider = "S3" -> {<<k, w.bucket[k]>> : k \in DOMAIN w.bucket}
      [] w.provider = "Filesystem" ->
           {<<Path_strip_prefix(<<RootDir>> \o k, base_path), w.disk.files[k].data>> :
              k \in {f \in DOMAIN w.disk.files : Path_starts_with(<<RootDir>> \o f, base_path)}}

\* every byte sequence the server holds, in any of its stores
Holdings(w) ==
    {w.memory[k][1] : k \in DOMAIN w.memory}
    \cup {w.disk.files[k].data : k \in DOMAIN w.disk.files}
    \cup {w.bucket[k] : k \in DOMAIN w.bucket}

Init ==
    /\ provider \in Providers
    /\ memory = EmptyMap
    /\ disk = DiskInit
    /\ bucket = EmptyMap
    /\ now = 0
    /\ rng = 0
    /\ saved = EmptyMap
    /\ written = EmptyMap
    /\ resp = NoResp
    /\ cr = [stage |-> "idle"]

SaveUpload ==
    /\ rng < MaxSaves
    /\ \E id \in SaveIds, b \in Contents, fault \in WriteFaults :
         LET o == save_upload(World, id, b, rng + 1, now, fault)
         IN  /\ Becomes(o)
             /\ saved' = IF IsOk(o.res)
                         THEN MapPut(saved, id,
                                     [key |-> o.res.val, content |-> b, draw |-> rng + 1,
                                      prev |-> IF id \in DOMAIN saved
                                               THEN Some(saved[id].content) ELSE None])
                         ELSE MapRemove(saved, id)
             /\ resp' = [op |-> "save_upload", id |-> id, res |-> o.res]
    /\ rng' = rng + 1
    /\ UNCHANGED <<now, written, cr>>

GetUpload ==
    /\ \E id \in ReqIds, key \in KeysTried :
         LET o == get_upload(World, id, key, now)
         IN  /\ Becomes(o)
             /\ resp' = [op |-> "get_upload", id |-> id, res |-> o.res]
    /\ UNCHANGED <<now, rng, saved, written, cr>>

UploadExists ==
    /\ \E id \in ReqIds :
         LET o == upload_exists(World, id)
         IN  /\ Becomes(o)
             /\ resp' = [op |-> "upload_exists", id |-> id, res |-> o.res]
    /\ UNCHANGED <<now, rng, saved, written, cr>>

DeleteUpload ==
    /\ \E id \in ReqIds :
         LET o == delete_upload(World, id)
         IN  /\ Becomes(o)
             /\ saved' = [i \in {x \in DOMAIN saved : UploadPathOf(x) # UploadPathOf(id)} |->
                            saved[i]]
             /\ resp' = [op |-> "delete_upload", id |-> id, res |-> o.res]
    /\ UNCHANGED <<now, rng, written, cr>>

RemoveAllExpiredUploads ==
    /\ \E expire_after \in ExpireAfters :
         LET l == Provider_list(World, upload_path).res
         IN  \E paths \in Orders(IF IsOk(l) THEN l.val ELSE {}) :
               LET o == remove_all_expired_uploads(World, expire_after, now, paths)
               IN  /\ Becomes(o)
                   /\ saved' = [i \in {x \in DOMAIN saved :
                                         \E e \in Entries(o.w) : e[1] = UploadPathOf(x)} |->
                                  saved[i]]
                   /\ resp' = [op |-> "remove_all_expired_uploads", id |-> <<>>, res |-> o.res,
                               expire_after |-> expire_after,
                               deleted |-> {x[1] : x \in Entries(World)} \ {x[1] : x \in Entries(o.w)}]
    /\ UNCHANGED <<now, rng, written, cr>>

GetUploadHandler ==
    /\ \E id \in ReqIds, key \in KeysTried :
         LET o == get_upload_handler(World, id, key, now)
         IN  /\ Becomes(o)
             /\ resp' = [op |-> "GET", id |-> id, res |-> o.res]
    /\ UNCHANGED <<now, rng, saved, written, cr>>

Tick ==
    /\ now < MaxTime
    /\ now' = now + 1
    /\ UNCHANGED <<provider, memory, disk, bucket, rng, saved, written, resp, cr>>

Next ==
    \/ SaveUpload
    \/ GetUpload
    \/ UploadExists
    \/ DeleteUpload
    \/ RemoveAllExpiredUploads
    \/ GetUploadHandler
    \/ Tick

Spec == Init /\ [][Next]_vars

\* the data the backend of w holds at path, as a set: empty when it holds none
StoredAt(w, path) == {e[2] : e \in {x \in Entries(w) : x[1] = path}}

\* the blob save_upload wrote for the save s of id
BlobOf(id, s) == encrypt(s.content, id, s.draw).val[2]

\* C1: for every id and content b, on every backend: once save_upload(id, b)
\* has returned key K, and until a later save_upload of id, a delete_upload of
\* it or a sweep that deletes it, get_upload(id, K) returns exactly b, in
\* every state the engine reaches by whatever get_upload, upload_exists and
\* GET calls on any id with any key.
C1_GetAfterSave ==
    \A id \in DOMAIN saved :
        get_upload(World, id, saved[id].key, now).res = Ok(saved[id].content)

C1_Witness ==
    /\ resp.op = "get_upload"
    /\ resp.id \in DOMAIN saved
    /\ resp.res = Ok(saved[resp.id].content)
    /\ Cardinality(DOMAIN saved) = 2
    /\ now > 0

\* C3: after save_upload(id, b1) and then save_upload(id, b2) returning key2,
\* with no delete or expiry between or after, get_upload(id, key2) returns b2
\* and the backend holds for id exactly one entry, the blob of the second
\* save: nothing of b1 or of its blob is left.
C3_Overwrite ==
    \A id \in DOMAIN saved :
        IsSome(saved[id].prev) =>
            /\ get_upload(World, id, saved[id].key, now).res = Ok(saved[id].content)
            /\ StoredAt(World, UploadPathOf(id)) = {BlobOf(id, saved[id])}
            /\ Cardinality({e \in Entries(World) : e[1] = UploadPathOf(id)}) = 1

C3_Witness ==
    /\ resp.op = "get_upload"
    /\ resp.id \in DOMAIN saved
    /\ IsSome(saved[resp.id].prev)
    /\ Len(saved[resp.id].prev[1]) > Len(saved[resp.id].content)
    /\ resp.res = Ok(saved[resp.id].content)

\* an id under which the backend holds an upload, and one under which it holds none
Present(id) == StoredAt(World, UploadPathOf(id)) # {}
Missing(id) == StoredAt(World, UploadPathOf(id)) = {}

\* C2: a get of a missing id and a get of a present id whose decryption fails
\* give the same outward result at every layer: get_upload has the same kind
\* of outcome for both, and GET /upload/{id}?key=... answers both with the
\* same status and body.
C2_MissingAsDecryptFailure ==
    \A m \in ReqIds, p \in ReqIds, key \in KeysTried :
        (Missing(m) /\ Present(p) /\ ~IsOk(get_upload(World, p, key, now).res)) =>
            /\ get_upload(World, m, key, now).res.tag = get_upload(World, p, key, now).res.tag
            /\ get_upload_handler(World, m, key, now).res =
                 get_upload_handler(World, p, key, now).res

\* C7: if the ciphertext stored under id A, saved with key kA, is placed in
\* the backend under a different id B, get_upload(B, kA) fails.
C7_MovedCiphertextFails ==
    \A A \in DOMAIN saved : \A B \in ReqIds \ {A} :
        \A blob \in StoredAt(World, UploadPathOf(A)) :
            LET placed == Provider_write(World, UploadPathOf(B), blob, now, None)
            IN  IsOk(placed.res) => IsErr(get_upload(placed.w, B, saved[A].key, now).res)

C7_Witness ==
    \E A \in DOMAIN saved : \E B \in SaveIds \ {A} :
        \E blob \in StoredAt(World, UploadPathOf(A)) :
            LET placed == Provider_write(World, UploadPathOf(B), blob, now, None)
            IN  /\ IsOk(placed.res)
                /\ StoredAt(placed.w, UploadPathOf(B)) = {blob}
                /\ get_upload(placed.w, A, saved[A].key, now).res = Ok(saved[A].content)
                /\ get_upload(placed.w, B, saved[A].key, now).res = Err("aead::Error")

\* the ASCII code of the character of the base64url alphabet with index v
Base64UrlAscii(v) ==
    IF v < 26 THEN 65 + v
    ELSE IF v < 52 THEN 97 + (v - 26)
    ELSE IF v < 62 THEN 48 + (v - 52)
    ELSE IF v = 62 THEN 45 ELSE 95

\* the bytes of the key of draw n, and of its text
KeyBytes(n) == RawBytes(generate_key(n))
KeyTextBytes(n) ==
    LET T == Base64UrlUnpadded_encode_string(generate_key(n))
    IN  RawBytes([i \in 1..Len(T) |-> Base64UrlAscii(T[i])])

\* pat occurs in data as a run of consecutive bytes
Occurs(pat, data) ==
    \E o \in 0..(Len(data) - Len(pat)) : SubSeq(data, o + 1, o + Len(pat)) = pat

\* C8: in every reachable state the server holds no copy of any key a
\* save_upload returned: no byte sequence in any of its stores contains the
\* key or its text, the blob stored for a save is only the nonce and the
\* sealed payload, and the keys of two saves differ.
C8_NoKeyHeld ==
    /\ \A n \in 1..rng : \A data \in Holdings(World) :
          ~Occurs(KeyBytes(n), data) /\ ~Occurs(KeyTextBytes(n), data)
    /\ \A id \in DOMAIN saved :
          /\ StoredAt(World, UploadPathOf(id)) = {BlobOf(id, saved[id])}
          /\ \A blob \in StoredAt(World, UploadPathOf(id)) :
                Len(blob) = CRYPTO_NONCE_SIZE + Len(saved[id].content) + CRYPTO_TAG_SIZE
          /\ saved[id].key = Base64UrlUnpadded_encode_string(generate_key(saved[id].draw))
    /\ \A i, j \in DOMAIN saved : i # j => saved[i].key # saved[j].key

C8_Witness ==
    /\ resp.op = "save_upload"
    /\ IsOk(resp.res)
    /\ Cardinality(DOMAIN saved) = 2
    /\ \A id \in DOMAIN saved : Present(id)

\* C13: on Memory and Filesystem, a remove_all_expired_uploads(expire_after)
\* pass that returns Ok deletes exactly the objects of the upload namespace
\* with last_access + expire_after <= now, equality included (afterwards they
\* hold no data and exists is false), and leaves every other object present
\* with its content and its last access unchanged; it adds nothing.
C13_SweepDeletesExpired ==
    provider \in {"Memory", "Filesystem"} =>
        \A expire_after \in ExpireAfters :
            \A paths \in Orders(IF IsOk(Provider_list(World, upload_path).res)
                                 THEN Provider_list(World, upload_path).res.val ELSE {}) :
                LET o == remove_all_expired_uploads(World, expire_after, now, paths)
                IN  IsOk(o.res) =>
                      /\ Entries(o.w) \subseteq Entries(World)
                      /\ \A x \in Entries(World) :
                            LET la == Provider_last_access(World, x[1]).res
                            IN  /\ Path_starts_with(x[1], upload_path)
                                /\ IsOk(la) /\ IsSome(la.val)
                                /\ IF la.val[1] + expire_after <= now
                                   THEN /\ StoredAt(o.w, x[1]) = {}
                                        /\ Provider_exists(o.w, x[1]).res = Ok(FALSE)
                                   ELSE /\ StoredAt(o.w, x[1]) = {x[2]}
                                        /\ Provider_last_access(o.w, x[1]).res = la

\* a sweep has deleted one upload, saved a tick ago, and kept the one just saved
C13_Witness ==
    /\ resp.op = "remove_all_expired_uploads"
    /\ IsOk(resp.res)
    /\ provider = "Filesystem"
    /\ resp.expire_after = 1
    /\ Cardinality(resp.deleted) = 1
    /\ Cardinality(Entries(World)) = 1
    /\ \A id \in DOMAIN saved : Present(id)

\* C14: on the S3 backend, whose supports_expiry is false and whose
\* last_access always fails, remove_all_expired_uploads returns Ok for every
\* expire_after and every age of the objects, whatever the bucket lists, and
\* leaves the backend as it was; the periodic sweep task is not spawned for
\* it, whatever expiry is configured.
C14_SweepNoOpWithoutExpiry ==
    provider = "S3" =>
        /\ ~Provider_supports_expiry(World)
        /\ \A p \in DOMAIN bucket : IsErr(Provider_last_access(World, p).res)
        /\ \A expire_after \in ExpireAfters :
              /\ ~expiry_task_spawned(World, Some(expire_after))
              /\ \A paths \in Orders(Provider_list(World, upload_path).res.val) :
                    LET o == remove_all_expired_uploads(World, expire_after, now, paths)
                    IN  o.res = Ok(<<>>) /\ o.w = World
        /\ ~expiry_task_spawned(World, None)

\* a sweep with expire_after = 0 has run over two objects saved a tick ago
C14_Witness ==
    /\ resp.op = "remove_all_expired_uploads"
    /\ provider = "S3"
    /\ resp.expire_after = 0
    /\ resp.res = Ok(<<>>)
    /\ resp.deleted = {}
    /\ now > 0
    /\ Cardinality(DOMAIN bucket) = 2

(***************************************************************************)
(* SpecBackend: one StorageProvider driven through StorageOperations       *)
(* directly, with paths of every kind.                                     *)
(***************************************************************************)
\* uploads/a, uploads, /s and ../s
BkPaths ==
    {Path_new(<<"u", "p", "l", "o", "a", "d", "s", "/", "a">>),
     Path_new(<<"u", "p", "l", "o", "a", "d", "s">>),
     Path_new(<<"/", "s">>),
     Path_new(<<".", ".", "/", "s">>)}
BkData == {RawBytes(<<1>>), RawBytes(<<2, 3>>)}

\* a path with a root or a parent-directory component
Unsafe(path) == \E i \in 1..Len(path) : path[i] \in {RootDir, ParentDir}

\* the files of disk d that lie outside base_path
OutsideFiles(d) ==
    [f \in {x \in DOMAIN d.files : ~Path_starts_with(<<RootDir>> \o x, base_path)} |-> d.files[f]]

InitBackend ==
    /\ provider \in Providers
    /\ memory = EmptyMap
    /\ disk = DiskInit
    /\ bucket = EmptyMap
    /\ now = 0
    /\ rng = 0
    /\ saved = EmptyMap
    /\ written = EmptyMap
    /\ resp = NoResp
    /\ cr = [stage |-> "idle"]

BkWrite ==
    /\ \E path \in BkPaths, data \in BkData :
         LET o == Provider_write(World, path, data, now, None)
         IN  /\ Becomes(o)
             /\ written' = IF IsOk(o.res) THEN MapPut(written, path, data) ELSE written
             /\ resp' = [op |-> "write", path |-> path, res |-> o.res]
    /\ UNCHANGED <<now, rng, saved, cr>>

BkRead ==
    /\ \E path \in BkPaths :
         LET o == Provider_read(World, path, now)
         IN  /\ Becomes(o)
             /\ resp' = [op |-> "read", path |-> path, res |-> o.res]
    /\ UNCHANGED <<now, rng, saved, written, cr>>

BkDelete ==
    /\ \E path \in BkPaths :
         LET o == Provider_delete(World, path)
         IN  /\ Becomes(o)
             /\ written' = MapRemove(written, path)
             /\ resp' = [op |-> "delete", path |-> path, res |-> o.res]
    /\ UNCHANGED <<now, rng, saved, cr>>

BkExists ==
    /\ \E path \in BkPaths :
         LET o == Provider_exists(World, path)
         IN  /\ Becomes(o)
             /\ resp' = [op |-> "exists", path |-> path, res |-> o.res]
    /\ UNCHANGED <<now, rng, saved, written, cr>>

BkList ==
    /\ \E path \in BkPaths :
         LET o == Provider_list(World, path)
         IN  /\ Becomes(o)
             /\ resp' = [op |-> "list", path |-> path, res |-> o.res]
    /\ UNCHANGED <<now, rng, saved, written, cr>>

BkLastAccess ==
    /\ \E path \in BkPaths :
         LET o == Provider_last_access(World, path)
         IN  /\ Becomes(o)
             /\ resp' = [op |-> "last_access", path |-> path, res |-> o.res]
    /\ UNCHANGED <<now, rng, saved, written, cr>>

NextBackend ==
    \/ BkWrite
    \/ BkRead
    \/ BkDelete
    \/ BkExists
    \/ BkList
    \/ BkLastAccess
    \/ Tick

SpecBackend == InitBackend /\ [][NextBackend]_vars

\* C9: on the Filesystem backend every operation called with a path that has
\* a root or a '..' component fails with PermissionDenied, and no file
\* outside the base directory is read, written, deleted or has its
\* timestamps changed.
C9_PathSafety ==
    /\ OutsideFiles(disk) = OutsideFiles(DiskInit)
    /\ (provider = "Filesystem" /\ resp.op # "none" /\ Unsafe(resp.path)) =>
          resp.res = Err("PermissionDenied")

\* C10: for every backend variant, after any sequence of calls, and already
\* for the paths p without a root or '..' component: read(p) returns the
\* bytes of the most recent write(p, b) not followed by a delete(p) and
\* exists(p) is true in that case; for any other p read returns no bytes and
\* exists is not true.
C10_ReadsLastWrite ==
    \A p \in {x \in BkPaths : ~Unsafe(x)} :
        LET r == Provider_read(World, p, now).res
            e == Provider_exists(World, p).res
        IN  IF p \in DOMAIN written
            THEN r = Ok(Some(written[p])) /\ e = Ok(TRUE)
            ELSE ~(IsOk(r) /\ IsSome(r.val)) /\ ~(IsOk(e) /\ e.val)

\* C11: for every backend variant, and already for the paths p without a root
\* or '..' component: delete(p) returns true exactly when p was present (written
\* and not deleted since) and false when it was absent, never an error, and
\* after it exists(p) is false and read(p) is none.
C11_Delete ==
    \A p \in {x \in BkPaths : ~Unsafe(x)} :
        LET d == Provider_delete(World, p)
        IN  /\ d.res = Ok(p \in DOMAIN written)
            /\ Provider_exists(d.w, p).res = Ok(FALSE)
            /\ Provider_read(d.w, p, now).res = Ok(None)

\* C12: on Memory and Filesystem, and already for the paths p without a root
\* or '..' component: read(p) of a present path returns its bytes, sets
\* last_access(p) to the time of the read and changes nothing else (not the
\* bytes of p, not its modification time, not any other path); read(p) of an
\* absent path returns none, not an error, and changes nothing.  Forget(w, p)
\* is w with the access time kept for p reset.
C12_ReadFrame ==
    LET Forget(w, path) ==
            [w EXCEPT !.memory = [k \in DOMAIN w.memory |->
                                    IF k = path THEN <<w.memory[k][1], 0>> ELSE w.memory[k]],
                      !.disk.files = [k \in DOMAIN w.disk.files |->
                                        IF k = Drop(Path_join(base_path, path), 1)
                                        THEN [w.disk.files[k] EXCEPT !.atime = 0]
                                        ELSE w.disk.files[k]]]
    IN  provider \in {"Memory", "Filesystem"} =>
            \A p \in {x \in BkPaths : ~Unsafe(x)} :
                LET r == Provider_read(World, p, now)
                IN  IF p \in DOMAIN written
                    THEN /\ r.res = Ok(Some(written[p]))
                         /\ Provider_last_access(r.w, p).res = Ok(Some(now))
                         /\ Forget(r.w, p) = Forget(World, p)
                    ELSE r.res = Ok(None) /\ r.w = World

\* C15: delete_upload(id) is idempotent, for every id whose path has no root
\* or '..' component (those are refused with PermissionDenied): on an id that
\* holds no upload it returns Ok and leaves the backend unchanged; when it
\* returns Ok, upload_exists(id) is false afterwards and a second
\* delete_upload(id) returns Ok and changes nothing more.
C15_DeleteIdempotent ==
    \A id \in {x \in ReqIds : ~Unsafe(UploadPathOf(x))} :
        LET d1 == delete_upload(World, id)
            d2 == delete_upload(d1.w, id)
        IN  /\ Missing(id) => (d1.res = Ok(<<>>) /\ d1.w = World)
            /\ IsOk(d1.res) =>
                  /\ upload_exists(d1.w, id).res = Ok(FALSE)
                  /\ d2.res = Ok(<<>>)
                  /\ d2.w = d1.w

\* C16: for every id, upload_exists(id) returns true exactly when the backend
\* holds an entry for id, and it leaves all state unchanged: neither the
\* stored bytes nor the last access of any object (it takes no key and
\* decrypts nothing), so it does not postpone expiry.
C16_ExistsFrame ==
    \A id \in ReqIds :
        LET o == upload_exists(World, id)
        IN  /\ o.w = World
            /\ (IsOk(o.res) /\ o.res.val = TRUE) <=> Present(id)

\* C17: per object id, in every step of the engine: the id goes from absent
\* to present only by a save_upload(id) that completed (returned its key),
\* its stored ciphertext changes only by such a save_upload(id), and it goes
\* from present to absent only by delete_upload(id) or by a sweep on a backend
\* that tracks access, for which last_access + expire_after <= now held;
\* get_upload, upload_exists and GET never create, replace or remove it.
C17_Lifecycle ==
    [][\A id \in ReqIds :
          LET path == UploadPathOf(id)
              before == StoredAt(World, path)
              after == StoredAt(World, path)'
              la == Provider_last_access(World, path).res
              completedSave == /\ rng' = rng + 1
                               /\ resp'.op = "save_upload" /\ resp'.id = id
                               /\ IsOk(resp'.res)
          IN  /\ (before = {} /\ after # {}) => completedSave
              /\ (before # {} /\ after # {} /\ after # before) => completedSave
              /\ (before # {} /\ after = {}) =>
                    \/ resp'.op = "delete_upload" /\ resp'.id = id
                    \/ /\ resp'.op = "remove_all_expired_uploads"
                       /\ Provider_supports_expiry(World)
                       /\ IsOk(la) /\ IsSome(la.val)
                       /\ la.val[1] + resp'.expire_after <= now
       ]_vars

\* C18: on Memory and Filesystem, after any save_upload(id, b): if it returned
\* a key, get_upload(id, key) yields b; if it returned an error, what is
\* stored under id is what was stored before (the prior ciphertext, readable
\* under its prior key, or nothing): never a truncated or empty blob.
C18_NoPartialWrite ==
    [][(rng' = rng + 1 /\ provider \in {"Memory", "Filesystem"}) =>
          LET id == resp'.id
              w2 == World'
              before == StoredAt(World, UploadPathOf(id))
              after == StoredAt(w2, UploadPathOf(id))
          IN  IF IsOk(resp'.res)
              THEN /\ id \in DOMAIN saved'
                   /\ get_upload(w2, id, resp'.res.val, now').res = Ok(saved'[id].content)
              ELSE after = before
       ]_vars

\* C19: in every backend state, and already for the ids of uploads with
\* every key: get_upload(id, key) returns a value or an error and never
\* panics, also when the blob stored under id is shorter than the nonce, and
\* GET /upload/{id} answers with the content or with its not-found response.
C19_NoPanic ==
    \A id \in SaveIds, key \in KeysTried :
        LET g == get_upload(World, id, key, now).res
            h == get_upload_handler(World, id, key, now).res
        IN  /\ IsOk(g) \/ IsErr(g)
            /\ h = DECRYPT_OR_NOT_FOUND_RESPONSE \/ h.status = 200

\* C20: in every backend state, every path that list(prefix) returns lies
\* under prefix (Path::starts_with), so the paths the sweep examines, the
\* result of list("uploads/"), lie inside uploads/: on Memory and Filesystem
\* a sweep touches no entry outside uploads/, whatever its result.
C20_ListUnderPrefix ==
    /\ \A prefix \in BkPaths \cup {upload_path} :
          LET l == Provider_list(World, prefix).res
          IN  IsOk(l) => \A q \in l.val : Path_starts_with(q, prefix)
    /\ provider \in {"Memory", "Filesystem"} =>
          LET l == Provider_list(World, upload_path).res
          IN  \A expire_after \in ExpireAfters :
                \A paths \in Orders(IF IsOk(l) THEN l.val ELSE {}) :
                    LET o == remove_all_expired_uploads(World, expire_after, now, paths)
                    IN  /\ \A x \in Entries(World) :
                              ~Path_starts_with(x[1], upload_path) =>
                                  /\ x \in Entries(o.w)
                                  /\ Provider_last_access(o.w, x[1]).res =
                                        Provider_last_access(World, x[1]).res
                        /\ OutsideFiles(o.w.disk) = OutsideFiles(disk)

\* list has returned the one entry under its prefix while the backend holds
\* another entry outside it
C20_Witness ==
    /\ resp.op = "list"
    /\ resp.path = upload_path
    /\ IsOk(resp.res)
    /\ Cardinality(resp.res.val) = 1
    /\ \E x \in Entries(World) : ~Path_starts_with(x[1], upload_path)

(***************************************************************************)
(* Text: a str is the sequence of its characters.                          *)
(***************************************************************************)
\* str::starts_with
str_starts_with(s, pat) == Len(pat) <= Len(s) /\ Take(s, Len(pat)) = pat

RECURSIVE str_trim_start_matches(_, _)
\* str::trim_start_matches: the prefix is removed as often as it occurs
str_trim_start_matches(s, pat) ==
    IF pat # <<>> /\ str_starts_with(s, pat)
    THEN str_trim_start_matches(Drop(s, Len(pat)), pat)
    ELSE s

\* str::trim: white space is removed at both ends
str_trim(s) ==
    LET kept == {i \in 1..Len(s) : s[i] \notin {" ", "\n", "\t"}}
    IN  IF kept = {} THEN <<>>
        ELSE SubSeq(s, CHOOSE i \in kept : \A j \in kept : i <= j,
                       CHOOSE i \in kept : \A j \in kept : j <= i)

\* s.split(ch).next(): the text before the first ch, the whole of s without one
str_split_next(s, ch) ==
    LET hits == {i \in 1..Len(s) : s[i] = ch}
    IN  IF hits = {} THEN Some(s)
        ELSE Some(Take(s, (CHOOSE i \in hits : \A j \in hits : i <= j) - 1))

(***************************************************************************)
(* impl FromStr for StorageProvider (storage/mod.rs), with every storage   *)
(* feature enabled.  env is what the machine answers: access, whether the  *)
(* path can be read and written once create_dir_all has run; canonicalize, *)
(* whether FilesystemStorage::new can canonicalize it; s3, whether         *)
(* S3Storage::new gets its client and bucket.                              *)
(***************************************************************************)
SchemeMemory == <<"m", "e", "m", "o", "r", "y", ":", "/", "/">>
SchemeFs == <<"f", "s", ":", "/", "/">>
SchemeS3 == <<"s", "3", ":", "/", "/">>

StorageProvider_from_str(s, env) ==
    IF s = SchemeMemory THEN Ok([variant |-> "Memory"])
    ELSE IF str_starts_with(s, SchemeFs)
         THEN LET path == str_trim(str_trim_start_matches(s, SchemeFs))
              IN  IF path = <<>> \/ ~env.access
                  THEN Err("Path specified cannot be read from or written to by the current user")
                  ELSE IF ~env.canonicalize THEN Err("Failed to create filesystem storage")
                  ELSE Ok([variant |-> "Filesystem", base_path |-> path])
    ELSE IF str_starts_with(s, SchemeS3)
         THEN LET next == str_split_next(str_trim_start_matches(s, SchemeS3), "/")
              IN  IF ~IsSome(next) THEN Err("S3 URL must include bucket: s3://bucket")
                  ELSE IF next[1] = <<>> THEN Err("S3 bucket name cannot be empty")
                  ELSE IF ~env.s3 THEN Err("failed to create S3 client")
                  ELSE Ok([variant |-> "S3", bucket |-> next[1]])
    ELSE Err("Valid sources are: 'memory://', 'fs://path', 's3://bucket'")

(***************************************************************************)
(* mime.rs.  A Mime is its type, its subtype and its parameters; two Mimes *)
(* are equal when all three are.                                           *)
(***************************************************************************)
Mime(type, subtype, params) == [type |-> type, subtype |-> subtype, params |-> params]

WILDCARD_CHAR == "*"

\* an is_mime_allowed that looks at the first entry of the list only
is_mime_allowed_FirstOnly(mime, allowed) ==
    /\ allowed # <<>>
    /\ \/ allowed[1].type = WILDCARD_CHAR /\ allowed[1].subtype = WILDCARD_CHAR
       \/ allowed[1].subtype = WILDCARD_CHAR /\ allowed[1].type = mime.type
       \/ mime = allowed[1]

\* is_mime_allowed: the loop over the list, left at the first entry that admits mime
is_mime_allowed(mime, allowed) ==
    LET RECURSIVE loop(_)
        loop(i) ==
            IF i > Len(allowed) THEN FALSE
            ELSE IF allowed[i].type = WILDCARD_CHAR /\ allowed[i].subtype = WILDCARD_CHAR
                 THEN TRUE
            ELSE IF allowed[i].subtype = WILDCARD_CHAR /\ allowed[i].type = mime.type
                 THEN TRUE
            ELSE IF mime = allowed[i] THEN TRUE
            ELSE loop(i + 1)
    IN  IF allowed = <<>> THEN FALSE ELSE loop(1)

\* the longest allow-list tried
MaxAllowed == 2

\* the types of the uploads tried
UploadMimes ==
    {Mime("image", "png", ""), Mime("image", "jpeg", ""), Mime("text", "html", ""),
     Mime("text", "plain", ""), Mime("text", "plain", "charset=utf-8")}

\* the entries of the allow-lists tried
AllowedMimes ==
    UploadMimes \cup {Mime("*", "*", ""), Mime("image", "*", ""), Mime("text", "*", "")}

(***************************************************************************)
(* Cryptography::hash_bytes (cryptography.rs).  The input of 2^20 bytes    *)
(* and more is held as runs, <<byte, count>>.  A blake3::Hasher is the     *)
(* bytes it has absorbed, as runs in which neighbours differ; BLAKE3 is    *)
(* ideal: digests are equal exactly when the absorbed bytes are.           *)
(***************************************************************************)
\* the bytes s, one run per byte
RunsOf(s) == Vec([i \in 1..Len(s) |-> <<s[i], 1>>])

\* bytes.len()
RunsLen(runs) ==
    LET RECURSIVE sum(_)
        sum(i) == IF i > Len(runs) THEN 0 ELSE runs[i][2] + sum(i + 1)
    IN  sum(1)

\* the ASCII codes of the characters of salts and of the salt file
AsciiCode(c) ==
    CASE c = "\n" -> 10 [] c = " " -> 32 [] c = "0" -> 48 [] c = "1" -> 49 [] c = "A" -> 65 [] c = "B" -> 66
      [] c = "a" -> 97 [] c = "b" -> 98

\* str::as_bytes
str_as_bytes(s) == RawBytes([i \in 1..Len(s) |-> AsciiCode(s[i])])

\* Hasher::update: the input follows the bytes absorbed so far
Hasher_update(h, input) ==
    LET RECURSIVE push(_, _)
        push(acc, i) ==
            IF i > Len(input) THEN acc
            ELSE IF input[i][2] = 0 THEN push(acc, i + 1)
            ELSE IF acc # <<>> /\ acc[Len(acc)][1] = input[i][1]
                 THEN push([acc EXCEPT ![Len(acc)] = <<@[1], @[2] + input[i][2]>>], i + 1)
            ELSE push(Append(acc, input[i]), i + 1)
    IN  push(h, 1)

\* an update_rayon that joins the halves of its input in the wrong order
Hasher_update_rayon_Swapped(h, input) ==
    LET half == RunsLen(input) \div 2
        RECURSIVE cut(_, _, _)
        cut(i, k, left) ==
            IF k = 0 THEN <<left, SubSeq(input, i, Len(input))>>
            ELSE IF input[i][2] <= k THEN cut(i + 1, k - input[i][2], Append(left, input[i]))
            ELSE <<Append(left, <<input[i][1], k>>),
                   <<<<input[i][1], input[i][2] - k>>>> \o SubSeq(input, i + 1, Len(input))>>
        parts == cut(1, half, <<>>)
    IN  Hasher_update(Hasher_update(h, parts[2]), parts[1])

\* Hasher::update_rayon: the input is hashed as two halves, on separate
\* threads, and the halves are joined in their order
Hasher_update_rayon(h, input) ==
    LET half == RunsLen(input) \div 2
        RECURSIVE cut(_, _, _)
        cut(i, k, left) ==
            IF k = 0 THEN <<left, SubSeq(input, i, Len(input))>>
            ELSE IF input[i][2] <= k THEN cut(i + 1, k - input[i][2], Append(left, input[i]))
            ELSE <<Append(left, <<input[i][1], k>>),
                   <<<<input[i][1], input[i][2] - k>>>> \o SubSeq(input, i + 1, Len(input))>>
        parts == cut(1, half, <<>>)
    IN  Hasher_update(Hasher_update(h, parts[1]), parts[2])

\* the length of the hex text of a BLAKE3 digest of 32 bytes
HASH_HEX_LEN == 64

\* hasher.finalize().to_hex().to_string(): character i of the text of the
\* digest of the bytes h
Hasher_finalize_to_hex(h) == Vec([i \in 1..HASH_HEX_LEN |-> ToString(<<"blake3", h, i>>)])

\* the length below which hash_bytes takes update_rayon
HASH_RAYON_BELOW == 1048576

\* the branch of hash_bytes that absorbs the content: update_rayon is the
\* multi-threaded update, update the single-threaded one
hash_bytes_path(bytes) ==
    IF RunsLen(bytes) < HASH_RAYON_BELOW THEN "update_rayon" ELSE "update"

\* a hash_bytes that leaves the salt out
hash_bytes_Unsalted(bytes, salt) ==
    Ok(Hasher_finalize_to_hex(Hasher_update(<<>>, bytes)))

\* Cryptography::hash_bytes; bytes are runs, salt is a str
hash_bytes(bytes, salt) ==
    LET hasher == IF hash_bytes_path(bytes) = "update_rayon"
                  THEN Hasher_update_rayon(<<>>, bytes)
                  ELSE Hasher_update(<<>>, bytes)
    IN  Ok(Hasher_finalize_to_hex(Hasher_update(hasher, RunsOf(str_as_bytes(salt)))))

\* the inputs of hash_bytes tried: short ones, and ones about 2^20 bytes long
HashInputs ==
    {<<>>, RunsOf(RawBytes(<<7>>)), RunsOf(RawBytes(<<1, 2>>)), RunsOf(RawBytes(<<97, 97, 98>>)),
     <<<<RawByte(7), HASH_RAYON_BELOW - 1>>>>, <<<<RawByte(7), HASH_RAYON_BELOW>>>>,
     <<<<RawByte(7), HASH_RAYON_BELOW + 1>>>>,
     <<<<RawByte(1), 3>>, <<RawByte(97), HASH_RAYON_BELOW - 4>>>>,
     <<<<RawByte(1), 3>>, <<RawByte(97), HASH_RAYON_BELOW>>>>}

\* the salts tried
Salts == {<<>>, <<"a">>, <<"a", "b">>, <<"b", "0">>}

(***************************************************************************)
(* create_upload_handler (routes/uploads/post.rs).  The crates infer and   *)
(* image are modelled on the first byte of the upload: 137 begins a PNG,   *)
(* 71 a GIF, 56 a Photoshop image, which infer knows and image does not,   *)
(* and 37 a PDF; a byte 69 in a PNG is EXIF data, which decoding and       *)
(* encoding again leaves out; a PNG of its first byte alone does not       *)
(* decode.                                                                 *)
(***************************************************************************)
\* infer::get
infer_get(bytes) ==
    IF bytes = <<>> THEN None
    ELSE IF bytes[1] = RawByte(137)
         THEN Some([mime_type |-> Mime("image", "png", ""), extension |-> <<"p", "n", "g">>,
                    matcher_type |-> "Image"])
    ELSE IF bytes[1] = RawByte(71)
         THEN Some([mime_type |-> Mime("image", "gif", ""), extension |-> <<"g", "i", "f">>,
                    matcher_type |-> "Image"])
    ELSE IF bytes[1] = RawByte(56)
         THEN Some([mime_type |-> Mime("image", "vnd.adobe.photoshop", ""),
                    extension |-> <<"p", "s", "d">>, matcher_type |-> "Image"])
    ELSE IF bytes[1] = RawByte(37)
         THEN Some([mime_type |-> Mime("application", "pdf", ""),
                    extension |-> <<"p", "d", "f">>, matcher_type |-> "Archive"])
    ELSE None

\* the post-processing of an upload of matcher type Image: a GIF and an image
\* of a format image::guess_format does not know are left as they are, any
\* other image is decoded and encoded again without its EXIF data
reencode_image(bytes) ==
    IF bytes[1] = RawByte(71) \/ bytes[1] # RawByte(137) THEN Ok(bytes)
    ELSE IF Len(bytes) < 2
         THEN Err([status |-> 500,
                   text |-> "Your upload could not be completed due to a post-processing error"])
    ELSE Ok(SelectSeq(bytes, LAMBDA c : c # RawByte(69)))

\* the length of the prefix of the hash that names an upload
ID_HASH_LEN == 10

\* the answer to an upload that save_upload failed to store
SAVE_FAILED_TEXT ==
    "Your upload could not be completed successfully due to an internal server error"

\* create_upload_handler, from the bytes of the multipart field on; n is the
\* number of the draw from OsRng, made when save_upload is reached
create_upload_handler(w, upload_bytes, salt, allowed, n, t, fault) ==
    LET infer_result == infer_get(upload_bytes)
        inferred == infer_result[1]
        infer_ext == IF IsSome(infer_result) THEN inferred.extension ELSE <<>>
        processed == IF IsSome(infer_result) /\ inferred.matcher_type = "Image"
                     THEN reencode_image(upload_bytes)
                     ELSE Ok(upload_bytes)
        filename == Take(hash_bytes(RunsOf(processed.val), salt).val, ID_HASH_LEN)
                        \o (IF infer_ext # <<>> THEN <<".">> ELSE <<>>) \o infer_ext
        s == save_upload(w, filename, processed.val, n, t, fault)
    IN  IF IsSome(infer_result) /\ ~is_mime_allowed(inferred.mime_type, allowed)
        THEN Outcome(w, Err([status |-> 415, text |->
                 "Your upload was rejected because uploading files of this type is not permitted"]))
        ELSE IF ~IsSome(infer_result) /\ ~(\E i \in 1..Len(allowed) : allowed[i] = Mime("*", "*", ""))
        THEN Outcome(w, Err([status |-> 415, text |->
                 "Your upload was rejected because the MIME type could not be determined"]))
        ELSE IF IsErr(processed) THEN Outcome(w, processed)
        ELSE IF IsErr(s.res)
        THEN Outcome(s.w, Err([status |-> 500, text |-> SAVE_FAILED_TEXT]))
        ELSE Outcome(s.w, Ok([id |-> filename, key |-> s.res.val,
                              mimetype |-> IF IsSome(infer_result) THEN inferred.mime_type
                                           ELSE Mime("application", "octet-stream", "")]))

\* the uploads tried
UploadContents ==
    {RawBytes(<<1, 2>>), RawBytes(<<137, 1>>), RawBytes(<<137, 69, 1>>), RawBytes(<<137>>),
     RawBytes(<<71, 69>>), RawBytes(<<56, 69>>), RawBytes(<<37, 1>>)}

\* the most uploads in a behaviour
MaxUploads == 2

(***************************************************************************)
(* The persisted salt (cryptography.rs): the salt file lives on disk.      *)
(***************************************************************************)
\* the length of a salt
SALT_LEN == 64

\* Alphanumeric.sample_string(&mut rand::rng(), 64), draw number n: the
\* characters are the digits of n in base 6, drawn from six of the alphabet
sample_string(n) ==
    LET RECURSIVE digit(_, _)
        digit(v, i) == IF i = 1 THEN v % 6 ELSE digit(v \div 6, i - 1)
    IN  Vec([i \in 1..SALT_LEN |-> <<"0", "1", "A", "B", "a", "b">>[digit(n, i) + 1]])

\* a get_persisted_salt that returns the content of the file, blank or not
get_persisted_salt_AnyContent(d, path, t) ==
    LET metadata == fs_metadata(d, path)
        abs == Resolve(d, path).path
        bytes == d.files[abs].data
        chars == {"\n", " ", "0", "1", "A", "B", "a", "b"}
        valid == \A i \in 1..Len(bytes) : \E c \in chars : bytes[i] = RawByte(AsciiCode(c))
        data == [i \in 1..Len(bytes) |-> CHOOSE c \in chars : bytes[i] = RawByte(AsciiCode(c))]
        read == [d EXCEPT !.files[abs].atime = t]
    IN  IF IsErr(metadata)
        THEN [disk |-> d, res |-> IF metadata.err = "NotFound" THEN Ok(None) ELSE metadata]
        ELSE IF metadata.val.is_dir THEN [disk |-> d, res |-> Err("IsADirectory")]
        ELSE IF ~valid THEN [disk |-> read, res |-> Err("InvalidData")]
        ELSE [disk |-> read, res |-> Ok(Some(Vec(data)))]

\* Cryptography::get_persisted_salt on the file system d at time t
get_persisted_salt(d, path, t) ==
    LET metadata == fs_metadata(d, path)
        abs == Resolve(d, path).path
        bytes == d.files[abs].data
        chars == {"\n", " ", "0", "1", "A", "B", "a", "b"}
        valid == \A i \in 1..Len(bytes) : \E c \in chars : bytes[i] = RawByte(AsciiCode(c))
        data == [i \in 1..Len(bytes) |-> CHOOSE c \in chars : bytes[i] = RawByte(AsciiCode(c))]
        read == [d EXCEPT !.files[abs].atime = t]
    IN  IF IsErr(metadata)
        THEN [disk |-> d, res |-> IF metadata.err = "NotFound" THEN Ok(None) ELSE metadata]
        ELSE IF metadata.val.is_dir THEN [disk |-> d, res |-> Err("IsADirectory")]
        ELSE IF ~valid THEN [disk |-> read, res |-> Err("InvalidData")]
        ELSE IF str_trim(data) # <<>> THEN [disk |-> read, res |-> Ok(Some(Vec(data)))]
        ELSE [disk |-> read, res |-> Ok(None)]

\* Cryptography::create_persisted_salt, draw number n
create_persisted_salt(d, path, n, t) ==
    LET salt == sample_string(n)
        r == Resolve(d, path)
        atime == IF r.path \in DOMAIN d.files THEN d.files[r.path].atime ELSE t
    IN  IF ~r.ok THEN [disk |-> d, res |-> Err(r.kind)]
        ELSE IF r.path \in DOMAIN d.dirs THEN [disk |-> d, res |-> Err("IsADirectory")]
        ELSE [disk |-> [d EXCEPT !.files = MapPut(d.files, r.path,
                             [data |-> str_as_bytes(salt), atime |-> atime, mtime |-> t,
                              writable |-> TRUE])],
              res |-> Ok(salt)]

\* the path of the salt file, and the contents it is tried with
SaltPath == <<RootDir, <<"s", "a", "l", "t">>>>
SaltFiles ==
    {str_as_bytes(<<>>), str_as_bytes(<<" ">>), str_as_bytes(<<" ", "\n">>),
     str_as_bytes(<<"a">>), str_as_bytes(<<" ", "a", "b", "\n">>), RawBytes(<<97, 255>>)}

(***************************************************************************)
(* SpecStartup: the functions the server calls on its configuration and on *)
(* an upload before the engine is reached.  Init draws a call and its      *)
(* arguments, one action per function applies it; a server that takes      *)
(* uploads and a salt file have an action per operation.                   *)
(***************************************************************************)
\* the backend selectors tried
Selectors ==
    {SchemeMemory, SchemeMemory \o <<"x">>, SchemeMemory \o <<"/">>, <<" ">> \o SchemeMemory,
     <<"m", "e", "m", "o", "r", "y">>,
     SchemeFs \o <<"d">>, SchemeFs \o <<"/", "d">>, SchemeFs, SchemeFs \o <<" ">>,
     SchemeFs \o <<" ", "d", " ">>, SchemeFs \o SchemeFs \o <<"x">>,
     SchemeS3 \o <<"b">>, SchemeS3 \o <<"b", "/", "x">>, SchemeS3, SchemeS3 \o <<"/", "x">>,
     SchemeS3 \o SchemeS3, SchemeS3 \o SchemeS3 \o <<"b">>, SchemeS3 \o <<"b", ":">>,
     <<"h", "t", "t", "p", ":", "/", "/", "x">>, <<"s", "3", ":", "/", "b">>,
     <<"S", "3", ":", "/", "/", "b">>, <<>>}

\* a call of a function that touches no storage, or a server that takes
\* uploads (its backend, its salt and its allow-list), or a disk on which the
\* salt file is missing, a file or a directory
InitStartup ==
    \/ /\ EngineIdle
       /\ cr \in {[fn |-> "from_str", stage |-> "input", s |-> s, env |-> env] :
                    s \in Selectors,
                    env \in [access : BOOLEAN, canonicalize : BOOLEAN, s3 : BOOLEAN]}
             \cup {[fn |-> "is_mime_allowed", stage |-> "input", mime |-> m, allowed |-> a] :
                    m \in UploadMimes,
                    a \in UNION {[1..n -> AllowedMimes] : n \in 0..MaxAllowed}}
             \cup {[fn |-> "hash_bytes", stage |-> "input", bytes |-> b, salt |-> salt] :
                    b \in HashInputs, salt \in Salts}
    \/ /\ provider \in Providers
       /\ memory = EmptyMap
       /\ disk = DiskInit
       /\ bucket = EmptyMap
       /\ now = 0
       /\ rng = 0
       /\ saved = EmptyMap
       /\ written = EmptyMap
       /\ resp = NoResp
       /\ cr \in {[fn |-> "upload", salt |-> salt, allowed |-> a, log |-> <<>>] :
                    salt \in {<<"a">>, <<"b", "0">>},
                    a \in {<<Mime("*", "*", "")>>, <<Mime("image", "*", "")>>}}
    \/ /\ provider = "Filesystem"
       /\ memory = EmptyMap
       /\ \E f \in {[data |-> b, atime |-> 0, mtime |-> 0, writable |-> TRUE] : b \in SaltFiles} :
             disk \in {DiskInit,
                       [DiskInit EXCEPT !.files = MapPut(@, Drop(SaltPath, 1), f)],
                       [DiskInit EXCEPT !.dirs = MapPut(@, Drop(SaltPath, 1), 0)]}
       /\ bucket = EmptyMap
       /\ now = 0
       /\ rng = 0
       /\ saved = EmptyMap
       /\ written = EmptyMap
       /\ resp = NoResp
       /\ cr = [fn |-> "salt", created |-> None]

\* StorageProvider::from_str(s)
FromStr ==
    /\ cr.fn = "from_str" /\ cr.stage = "input"
    /\ cr' = [fn |-> "from_str", stage |-> "done", s |-> cr.s, env |-> cr.env,
              out |-> StorageProvider_from_str(cr.s, cr.env)]
    /\ UNCHANGED engineVars

\* is_mime_allowed(mime, allowed)
IsMimeAllowed ==
    /\ cr.fn = "is_mime_allowed" /\ cr.stage = "input"
    /\ cr' = [fn |-> "is_mime_allowed", stage |-> "done", mime |-> cr.mime,
              allowed |-> cr.allowed, out |-> is_mime_allowed(cr.mime, cr.allowed)]
    /\ UNCHANGED engineVars

\* Cryptography::hash_bytes(bytes, salt)
HashBytes ==
    /\ cr.fn = "hash_bytes" /\ cr.stage = "input"
    /\ cr' = [fn |-> "hash_bytes", stage |-> "done", bytes |-> cr.bytes, salt |-> cr.salt,
              out |-> hash_bytes(cr.bytes, cr.salt)]
    /\ UNCHANGED engineVars

\* POST /upload; log is the history of the uploads that were stored
CreateUpload ==
    /\ cr.fn = "upload"
    /\ rng < MaxUploads
    /\ \E c \in UploadContents, fault \in WriteFaults :
         LET o == create_upload_handler(World, c, cr.salt, cr.allowed, rng + 1, now, fault)
         IN  /\ Becomes(o)
             /\ resp' = [op |-> "POST", content |-> c, res |-> o.res]
             /\ cr' = IF IsOk(o.res)
                      THEN [cr EXCEPT !.log = Append(@, [content |-> c, id |-> o.res.val.id])]
                      ELSE cr
             /\ rng' = IF IsOk(o.res) \/ o.res.err.text = SAVE_FAILED_TEXT THEN rng + 1 ELSE rng
    /\ UNCHANGED <<now, saved, written>>

\* Cryptography::get_persisted_salt(path)
GetPersistedSalt ==
    /\ cr.fn = "salt"
    /\ LET o == get_persisted_salt(disk, SaltPath, now)
       IN  /\ disk' = o.disk
           /\ resp' = [op |-> "get_persisted_salt", res |-> o.res]
    /\ UNCHANGED <<provider, memory, bucket, now, rng, saved, written, cr>>

\* Cryptography::create_persisted_salt(path); created is the salt it returned
\* last, while the file is as it left it
CreatePersistedSalt ==
    /\ cr.fn = "salt"
    /\ rng < MaxRng
    /\ LET o == create_persisted_salt(disk, SaltPath, rng + 1, now)
       IN  /\ disk' = o.disk
           /\ resp' = [op |-> "create_persisted_salt", res |-> o.res]
           /\ cr' = IF IsOk(o.res) THEN [cr EXCEPT !.created = Some(o.res.val)] ELSE cr
    /\ rng' = rng + 1
    /\ UNCHANGED <<provider, memory, bucket, now, saved, written>>

\* somebody else writes or removes the salt file
ChangeSaltFile ==
    /\ cr.fn = "salt"
    /\ Drop(SaltPath, 1) \notin DOMAIN disk.dirs
    /\ \/ \E b \in SaltFiles :
             disk' = [disk EXCEPT !.files = MapPut(@, Drop(SaltPath, 1),
                         [data |-> b, atime |-> now, mtime |-> now, writable |-> TRUE])]
       \/ disk' = [disk EXCEPT !.files = MapRemove(@, Drop(SaltPath, 1))]
    /\ cr' = [cr EXCEPT !.created = None]
    /\ resp' = [op |-> "change"]
    /\ UNCHANGED <<provider, memory, bucket, now, rng, saved, written>>

NextStartup ==
    \/ FromStr
    \/ IsMimeAllowed
    \/ HashBytes
    \/ CreateUpload
    \/ GetPersistedSalt
    \/ CreatePersistedSalt
    \/ ChangeSaltFile

SpecStartup == InitStartup /\ [][NextStartup]_vars

\* C21: parsing a backend selector yields the Memory variant for "memory://",
\* the Filesystem variant for "fs://" followed by a path and the S3 variant
\* for "s3://" followed by a bucket that is not empty (the text up to the
\* first "/"), provided the machine grants the directory or the bucket; every
\* other string yields an error and no backend.
C21_FromStr ==
    (cr.fn = "from_str" /\ cr.stage = "done") =>
        LET s == cr.s
            out == cr.out
            after == Drop(s, 5)
            name == IF \E i \in 1..Len(after) : after[i] = "/"
                    THEN Take(after, (CHOOSE i \in 1..Len(after) :
                                          /\ after[i] = "/"
                                          /\ \A j \in 1..(i - 1) : after[j] # "/") - 1)
                    ELSE after
        IN  IF s = SchemeMemory THEN out = Ok([variant |-> "Memory"])
            ELSE IF str_starts_with(s, SchemeFs) /\ \E i \in 1..Len(after) : after[i] # " "
                 THEN IF cr.env.access /\ cr.env.canonicalize
                      THEN IsOk(out) /\ out.val.variant = "Filesystem"
                      ELSE IsErr(out)
            ELSE IF str_starts_with(s, SchemeS3) /\ name # <<>>
                 THEN IF cr.env.s3 THEN IsOk(out) /\ out.val.variant = "S3" ELSE IsErr(out)
            ELSE IsErr(out)

\* C22: is_mime_allowed(mime, allowed) is true exactly when some entry of
\* allowed is */* (type and subtype both the wildcard), or is T/* with T the
\* type of mime, or equals mime; it is false for the empty list, and every
\* reordering of allowed gives the same result.
C22_MimeAllowed ==
    (cr.fn = "is_mime_allowed" /\ cr.stage = "done") =>
        LET n == Len(cr.allowed)
            admits(a) == \/ a.type = "*" /\ a.subtype = "*"
                         \/ a.subtype = "*" /\ a.type = cr.mime.type
                         \/ a = cr.mime
        IN  /\ cr.out = (\E i \in 1..n : admits(cr.allowed[i]))
            /\ n = 0 => cr.out = FALSE
            /\ \A q \in [1..n -> 1..n] :
                  (\A i, j \in 1..n : q[i] = q[j] => i = j) =>
                      is_mime_allowed(cr.mime, [i \in 1..n |-> cr.allowed[q[i]]]) = cr.out

\* image/png has been admitted by the second entry of <<text/*, image/*>>
C22_Witness ==
    /\ cr.fn = "is_mime_allowed" /\ cr.stage = "done"
    /\ cr.mime = Mime("image", "png", "")
    /\ cr.allowed = <<Mime("text", "*", ""), Mime("image", "*", "")>>
    /\ cr.out = TRUE

\* C23: hash_bytes(B, salt) is the hex text of the BLAKE3 digest of B followed
\* by the bytes of salt, whichever update path is taken for B: the result of a
\* call equals what the single-threaded path (update) gives and what the
\* multi-threaded path (update_rayon) gives for the same B and salt, so the
\* same (B, salt) gives the same text on every call.
C23_HashPathIndependent ==
    (cr.fn = "hash_bytes" /\ cr.stage = "done") =>
        LET tail == RunsOf(str_as_bytes(cr.salt))
            serial == Hasher_finalize_to_hex(
                          Hasher_update(Hasher_update(<<>>, cr.bytes), tail))
            parallel == Hasher_finalize_to_hex(
                            Hasher_update(Hasher_update_rayon(<<>>, cr.bytes), tail))
        IN  /\ cr.out = Ok(serial)
            /\ cr.out = Ok(parallel)
            /\ Len(cr.out.val) = 64

\* hash_bytes has hashed an input of two runs, one byte short of 2^20 bytes and
\* so given to update_rayon, under a salt of two characters
C23_Witness ==
    /\ cr.fn = "hash_bytes" /\ cr.stage = "done"
    /\ IsOk(cr.out)
    /\ Len(cr.bytes) = 2
    /\ RunsLen(cr.bytes) = 1048575
    /\ cr.salt = <<"a", "b">>

\* C24: the id of a stored upload is the first 10 characters of the hex text
\* of the BLAKE3 digest of the stored content followed by the salt, then "."
\* and the inferred extension when there is one; the content is what
\* get_upload returns for the id and the key of the response.  Uploads of the
\* same bytes under the same salt get the same id, and the backend holds one
\* entry for them.
C24_IdFromHash ==
    cr.fn = "upload" =>
        /\ (resp.op = "POST" /\ IsOk(resp.res)) =>
               LET id == resp.res.val.id
                   got == get_upload(World, id, resp.res.val.key, now).res
                   hex == Hasher_finalize_to_hex(
                              Hasher_update(Hasher_update(<<>>, RunsOf(got.val)),
                                            RunsOf(str_as_bytes(cr.salt))))
                   inferred == infer_get(resp.content)
                   ext == IF IsSome(inferred) THEN inferred[1].extension ELSE <<>>
               IN  /\ IsOk(got)
                   /\ id = SubSeq(hex, 1, 10) \o (IF ext # <<>> THEN <<".">> \o ext ELSE <<>>)
        /\ \A i, j \in 1..Len(cr.log) :
               cr.log[i].content = cr.log[j].content => cr.log[i].id = cr.log[j].id
        /\ \A i \in 1..Len(cr.log) :
               Cardinality({x \in Entries(World) :
                               \E j \in 1..Len(cr.log) :
                                   /\ cr.log[j].content = cr.log[i].content
                                   /\ x[1] = UploadPathOf(cr.log[j].id)}) = 1

\* the same PNG has been stored twice, under one id that ends in ".png", and
\* the backend holds one entry
C24_Witness ==
    /\ cr.fn = "upload"
    /\ Len(cr.log) = 2
    /\ cr.log[1].content = RawBytes(<<137, 69, 1>>)
    /\ cr.log[2].content = cr.log[1].content
    /\ cr.log[1].id = cr.log[2].id
    /\ Len(cr.log[1].id) = 14
    /\ Cardinality(Entries(World)) = 1

\* C25: get_persisted_salt(path) returns the text of the file exactly when
\* the file exists and its text is not blank, and returns absence, not an
\* error, when the file is missing, empty or white space only; and while the
\* file is as create_persisted_salt left it, get_persisted_salt returns the
\* salt that create_persisted_salt returned.
C25_PersistedSalt ==
    cr.fn = "salt" =>
        LET abs == Drop(SaltPath, 1)
            isFile == abs \in DOMAIN disk.files
            bytes == disk.files[abs].data
            text(T) == Len(T) = Len(bytes) /\ \A i \in 1..Len(T) : bytes[i] = RawByte(AsciiCode(T[i]))
            blank == \A i \in 1..Len(bytes) : bytes[i] \in {RawByte(32), RawByte(10)}
            isText == \A i \in 1..Len(bytes) :
                         bytes[i] \in {RawByte(v) : v \in {10, 32, 48, 49, 65, 66, 97, 98}}
        IN  /\ resp.op = "get_persisted_salt" =>
                 /\ (abs \notin DOMAIN disk.files \cup DOMAIN disk.dirs) => resp.res = Ok(None)
                 /\ (isFile /\ blank) => resp.res = Ok(None)
                 /\ (isFile /\ isText /\ ~blank) =>
                        IsOk(resp.res) /\ IsSome(resp.res.val) /\ text(resp.res.val[1])
                 /\ (IsOk(resp.res) /\ IsSome(resp.res.val)) => (isFile /\ ~blank)
            /\ IsSome(cr.created) =>
                 /\ get_persisted_salt(disk, SaltPath, now).res = Ok(cr.created)
                 /\ Len(cr.created[1]) = 64
                 /\ resp.op = "get_persisted_salt" => resp.res = Ok(cr.created)

\* create_persisted_salt has written the salt file a second time and
\* get_persisted_salt has then returned the second salt
C25_Witness ==
    /\ cr.fn = "salt"
    /\ IsSome(cr.created)
    /\ rng = 2
    /\ resp.op = "get_persisted_salt"
    /\ resp.res = Ok(cr.created)

(***************************************************************************)
(* The server (main.rs): the request handlers and the expiry task share    *)
(* the engine behind a tokio::sync::RwLock.  A lock is its readers, its    *)
(* writer, "none" when nobody writes, and the queue of the tasks that wait *)
(* in write(): the lock is fair, a read() that comes after a waiting       *)
(* write() waits behind it.                                                *)
(***************************************************************************)
\* a read() that is granted while a writer holds the lock
RwLock_read_ready_IgnoringWriter(lock) == lock.queue = <<>>

\* RwLock::read is granted
RwLock_read_ready(lock) == lock.writer = "none" /\ lock.queue = <<>>

\* a write() that is granted while readers hold the lock
RwLock_write_ready_IgnoringReaders(lock, task) ==
    lock.writer = "none" /\ lock.queue # <<>> /\ lock.queue[1] = task

\* RwLock::write is granted to task, the first of the queue
RwLock_write_ready(lock, task) ==
    lock.writer = "none" /\ lock.readers = {} /\ lock.queue # <<>> /\ lock.queue[1] = task

\* write() is granted to the first of the queue
RwLock_write_granted(lock) ==
    [readers |-> lock.readers, writer |-> lock.queue[1], queue |-> Drop(lock.queue, 1)]

\* the guard of task is dropped
RwLock_release(lock, task) ==
    [readers |-> lock.readers \ {task},
     writer |-> IF lock.writer = task THEN "none" ELSE lock.writer,
     queue |-> lock.queue]

(***************************************************************************)
(* The expiry task (main.rs): loop { write().await; the pass of            *)
(* remove_all_expired_uploads; unwrap; sleep 60 s }.  The pass is taken    *)
(* one await at a time: list, then per path is_upload_expired and delete.  *)
(* sw is the task: pc, where it is; paths, the listed paths not yet        *)
(* examined; deleted, the paths the pass has deleted; judged, the path it  *)
(* found expired and the last access it read for it.                       *)
(***************************************************************************)
\* a pass that skips the call that failed and goes on
sweep_failed_Skipping(sw, err) ==
    IF sw.pc = "list" \/ Len(sw.paths) <= 1
    THEN [pc |-> "sleeping", paths |-> <<>>, deleted |-> sw.deleted, judged |-> None]
    ELSE [pc |-> "check", paths |-> Drop(sw.paths, 1), deleted |-> sw.deleted, judged |-> None]

\* a call of the pass has failed: `?` returns the error from
\* remove_all_expired_uploads and unwrap() panics, which ends the task
sweep_failed(sw, err) ==
    [pc |-> "dead", paths |-> sw.paths, deleted |-> sw.deleted, judged |-> None]

\* the pass goes on with the paths left, or ends and the task sleeps
sweep_next(paths, deleted) ==
    [pc |-> IF paths = <<>> THEN "sleeping" ELSE "check", paths |-> paths,
     deleted |-> deleted, judged |-> None]

\* one await of the pass.  order is the Vec that list returns; fault: the
\* backend call of this step fails with an I/O error
sweep_step(w, sw, expire_after, t, order, fault) ==
    LET io == Err("io error")
        listed == IF fault THEN io ELSE Provider_list(w, upload_path).res
        file == sw.paths[1]
        expired == IF fault THEN io ELSE is_upload_expired(w, file, expire_after, t)
        d == IF fault THEN Outcome(w, io) ELSE Provider_delete(w, file)
    IN  CASE sw.pc = "list" ->
               IF ~Provider_supports_expiry(w)
               THEN [w |-> w, sw |-> sweep_next(<<>>, {}), res |-> Some(Ok(<<>>))]
               ELSE IF IsErr(listed)
               THEN [w |-> w, sw |-> sweep_failed(sw, listed), res |-> Some(listed)]
               ELSE [w |-> w, sw |-> sweep_next(order, {}),
                     res |-> IF order = <<>> THEN Some(Ok(<<>>)) ELSE None]
          [] sw.pc = "check" ->
               IF IsErr(expired)
               THEN [w |-> w, sw |-> sweep_failed(sw, expired), res |-> Some(expired)]
               ELSE IF expired.val
               THEN [w |-> w,
                     sw |-> [sw EXCEPT !.pc = "delete",
                                       !.judged = Some(<<file, Provider_last_access(w, file).res>>)],
                     res |-> None]
               ELSE [w |-> w, sw |-> sweep_next(Drop(sw.paths, 1), sw.deleted),
                     res |-> IF Len(sw.paths) = 1 THEN Some(Ok(<<>>)) ELSE None]
          [] sw.pc = "delete" ->
               IF IsErr(d.res)
               THEN [w |-> d.w, sw |-> sweep_failed(sw, d.res), res |-> Some(d.res)]
               ELSE [w |-> d.w, sw |-> sweep_next(Drop(sw.paths, 1), sw.deleted \cup {file}),
                     res |-> IF Len(sw.paths) = 1 THEN Some(Ok(<<>>)) ELSE None]

(***************************************************************************)
(* DELETE /upload/{id} (routes/uploads/delete.rs), its two halves: the     *)
(* check under read() and the deletion under write().                      *)
(***************************************************************************)
delete_upload_handler_check(w, id) ==
    LET ex == upload_exists(w, id)
    IN  IF IsErr(ex.res) THEN Outcome(ex.w, Some(500))
        ELSE IF ~ex.res.val THEN Outcome(ex.w, Some(404))
        ELSE Outcome(ex.w, None)

delete_upload_handler_delete(w, id) ==
    LET d == delete_upload(w, id)
    IN  IF IsErr(d.res) THEN Outcome(d.w, 500) ELSE Outcome(d.w, 200)

(***************************************************************************)
(* SpecServer: two request handlers and the expiry task on one engine.     *)
(* cr holds the lock, the handlers (h) and the task (sweep).  A handler    *)
(* takes the lock in one step and runs its engine calls and drops the      *)
(* guard in the next; the task takes one step per await.  One tick of the  *)
(* clock is the 60 seconds the task sleeps; the last value of the clock    *)
(* stands for every later time.                                            *)
(***************************************************************************)
Handlers == {"h1", "h2"}

\* the expiry the server is configured with
UploadExpiry == Some(1)

HandlerIdle == [pc |-> "idle", op |-> "", id |-> <<>>]

InitServer ==
    /\ provider \in Providers
    /\ memory = EmptyMap
    /\ disk = DiskInit
    /\ bucket = EmptyMap
    /\ now = 0
    /\ rng = 0
    /\ saved = EmptyMap
    /\ written = EmptyMap
    /\ resp = NoResp
    /\ cr = [fn |-> "server",
             lock |-> [readers |-> {}, writer |-> "none", queue |-> <<>>],
             h |-> [t \in Handlers |-> HandlerIdle],
             sweep |-> [pc |-> IF expiry_task_spawned(World, UploadExpiry) THEN "start" ELSE "off",
                        paths |-> <<>>, deleted |-> {}, judged |-> None]]

\* a GET or a DELETE request reaches storage.read().await and is granted
HandlerRead(t) ==
    /\ cr.h[t].pc = "idle"
    /\ RwLock_read_ready(cr.lock)
    /\ \E op \in {"GET", "DELETE"}, id \in SaveIds :
         cr' = [cr EXCEPT !.h[t] = [pc |-> "read", op |-> op, id |-> id],
                          !.lock.readers = @ \cup {t}]
    /\ UNCHANGED engineVars

\* get_upload_handler under its read guard
HandlerGet(t) ==
    /\ cr.h[t].pc = "read" /\ cr.h[t].op = "GET"
    /\ LET o == get_upload_handler(World, cr.h[t].id,
                                   Base64UrlUnpadded_encode_string(generate_key(1)), now)
       IN  /\ Becomes(o)
           /\ resp' = [op |-> "GET", id |-> cr.h[t].id, status |-> o.res.status]
    /\ cr' = [cr EXCEPT !.h[t] = HandlerIdle, !.lock = RwLock_release(@, t)]
    /\ UNCHANGED <<now, rng, saved, written>>

\* a delete_upload_handler that keeps the read guard of its check while it
\* goes on to ask for the write guard
HandlerExists_KeepingGuard(t) ==
    /\ cr.h[t].pc = "read" /\ cr.h[t].op = "DELETE"
    /\ LET o == delete_upload_handler_check(World, cr.h[t].id)
       IN  /\ Becomes(o)
           /\ resp' = IF IsSome(o.res)
                      THEN [op |-> "DELETE", id |-> cr.h[t].id, status |-> o.res[1]]
                      ELSE [op |-> "DELETE", id |-> cr.h[t].id, checked |-> TRUE]
           /\ cr' = IF IsSome(o.res)
                    THEN [cr EXCEPT !.h[t] = HandlerIdle, !.lock = RwLock_release(@, t)]
                    ELSE [cr EXCEPT !.h[t].pc = "checked"]
    /\ UNCHANGED <<now, rng, saved, written>>

\* the first half of delete_upload_handler under its read guard
HandlerExists(t) ==
    /\ cr.h[t].pc = "read" /\ cr.h[t].op = "DELETE"
    /\ LET o == delete_upload_handler_check(World, cr.h[t].id)
       IN  /\ Becomes(o)
           /\ resp' = IF IsSome(o.res)
                      THEN [op |-> "DELETE", id |-> cr.h[t].id, status |-> o.res[1]]
                      ELSE [op |-> "DELETE", id |-> cr.h[t].id, checked |-> TRUE]
           /\ cr' = [cr EXCEPT !.h[t] = IF IsSome(o.res) THEN HandlerIdle
                                        ELSE [@ EXCEPT !.pc = "checked"],
                               !.lock = RwLock_release(@, t)]
    /\ UNCHANGED <<now, rng, saved, written>>

\* a POST request, or a DELETE request that has made its check, reaches
\* storage.write().await
HandlerWrite(t) ==
    /\ \/ /\ cr.h[t].pc = "checked"
          /\ cr' = [cr EXCEPT !.h[t].pc = "wait", !.lock.queue = Append(@, t)]
       \/ /\ cr.h[t].pc = "idle"
          /\ rng + Cardinality({u \in Handlers : cr.h[u].op = "POST"}) < MaxSaves
          /\ \E id \in SaveIds :
               cr' = [cr EXCEPT !.h[t] = [pc |-> "wait", op |-> "POST", id |-> id],
                                !.lock.queue = Append(@, t)]
    /\ UNCHANGED engineVars

\* the write() of a handler is granted
HandlerWriteGranted(t) ==
    /\ cr.h[t].pc = "wait"
    /\ RwLock_write_ready(cr.lock, t)
    /\ cr' = [cr EXCEPT !.h[t].pc = "write", !.lock = RwLock_write_granted(@)]
    /\ UNCHANGED engineVars

\* save_upload of create_upload_handler under its write guard
HandlerSave(t) ==
    /\ cr.h[t].pc = "write" /\ cr.h[t].op = "POST"
    /\ LET o == save_upload(World, cr.h[t].id, RawBytes(<<7>>), rng + 1, now, None)
       IN  /\ Becomes(o)
           /\ resp' = [op |-> "POST", id |-> cr.h[t].id,
                       status |-> IF IsOk(o.res) THEN 200 ELSE 500]
    /\ rng' = rng + 1
    /\ cr' = [cr EXCEPT !.h[t] = HandlerIdle, !.lock = RwLock_release(@, t)]
    /\ UNCHANGED <<now, saved, written>>

\* the second half of delete_upload_handler under its write guard
HandlerDelete(t) ==
    /\ cr.h[t].pc = "write" /\ cr.h[t].op = "DELETE"
    /\ LET o == delete_upload_handler_delete(World, cr.h[t].id)
       IN  /\ Becomes(o)
           /\ resp' = [op |-> "DELETE", id |-> cr.h[t].id, status |-> o.res]
    /\ cr' = [cr EXCEPT !.h[t] = HandlerIdle, !.lock = RwLock_release(@, t)]
    /\ UNCHANGED <<now, rng, saved, written>>

\* the task reaches storage_clone.write().await
SweepWrite ==
    /\ cr.sweep.pc = "start"
    /\ cr' = [cr EXCEPT !.sweep.pc = "wait", !.lock.queue = Append(@, "sweep")]
    /\ UNCHANGED engineVars

\* the write() of the task is granted: a pass begins
SweepWriteGranted ==
    /\ cr.sweep.pc = "wait"
    /\ RwLock_write_ready(cr.lock, "sweep")
    /\ cr' = [cr EXCEPT !.sweep = [pc |-> "list", paths |-> <<>>, deleted |-> {}, judged |-> None],
                        !.lock = RwLock_write_granted(@)]
    /\ UNCHANGED engineVars

\* one await of the pass; the guard is dropped when the pass ends or fails.
\* resp of a pass that has ended: its result, the paths it deleted and the
\* listed paths it has not examined
SweepStep ==
    /\ cr.sweep.pc \in {"list", "check", "delete"}
    /\ LET l == Provider_list(World, upload_path).res
       IN  \E order \in Orders(IF IsOk(l) THEN l.val ELSE {}),
              fault \in (IF provider = "Filesystem" THEN BOOLEAN ELSE {FALSE}) :
             LET o == sweep_step(World, cr.sweep, UploadExpiry[1], now, order, fault)
             IN  /\ Becomes(o)
                 /\ cr' = [cr EXCEPT !.sweep = o.sw,
                                     !.lock = IF o.sw.pc \in {"sleeping", "dead"}
                                              THEN RwLock_release(@, "sweep") ELSE @]
                 /\ resp' = IF IsSome(o.res)
                            THEN [op |-> "sweep", id |-> <<>>, res |-> o.res[1],
                                  deleted |-> o.sw.deleted, left |-> o.sw.paths]
                            ELSE [op |-> "sweep", id |-> <<>>, pending |-> TRUE]
    /\ UNCHANGED <<now, rng, saved, written>>

\* 60 seconds pass: a task that sleeps starts its next pass
Tick60 ==
    /\ now < MaxTime \/ cr.sweep.pc = "sleeping"
    /\ now' = IF now < MaxTime THEN now + 1 ELSE now
    /\ cr' = IF cr.sweep.pc = "sleeping" THEN [cr EXCEPT !.sweep.pc = "start"] ELSE cr
    /\ UNCHANGED <<provider, memory, disk, bucket, rng, saved, written, resp>>

NextServer ==
    \/ \E t \in Handlers :
         \/ HandlerRead(t)
         \/ HandlerGet(t)
         \/ HandlerExists(t)
         \/ HandlerWrite(t)
         \/ HandlerWriteGranted(t)
         \/ HandlerSave(t)
         \/ HandlerDelete(t)
    \/ SweepWrite
    \/ SweepWriteGranted
    \/ SweepStep
    \/ Tick60

SpecServer == InitServer /\ [][NextServer]_vars

\* C27: in every reachable state of the server the engine is used as a
\* reader-writer lock allows: handlers that read (get_upload, upload_exists)
\* may be in progress together, at most one mutation (save_upload,
\* delete_upload, a sweep pass) is in progress, and while one is, no read is.
C27_ReaderWriter ==
    LET reading == {t \in Handlers : cr.h[t].pc = "read"}
        writing == {t \in Handlers : cr.h[t].pc = "write"}
                   \cup (IF cr.sweep.pc \in {"list", "check", "delete"} THEN {"sweep"} ELSE {})
    IN  /\ Cardinality(writing) <= 1
        /\ writing # {} => reading = {}

\* two reads are in progress together while the task waits for its write()
C27_Witness ==
    /\ cr.h["h1"].pc = "read" /\ cr.h["h1"].op = "GET"
    /\ cr.h["h2"].pc = "read" /\ cr.h["h2"].op = "DELETE"
    /\ cr.sweep.pc = "start"

\* C28: from before it lists until its pass ends, the sweep holds the write
\* guard and no handler is inside the engine; so between its expiry check of
\* a path and the deletion, the object is as the check saw it: its last
\* access is the one the sweep judged by, and it is still expired.
C28_SweepExclusive ==
    /\ cr.sweep.pc \in {"list", "check", "delete"} =>
          /\ cr.lock.writer = "sweep"
          /\ \A t \in Handlers : cr.h[t].pc \notin {"read", "write"}
    /\ cr.sweep.pc = "delete" =>
          LET j == cr.sweep.judged[1]
          IN  /\ j[1] = cr.sweep.paths[1]
              /\ Provider_last_access(World, j[1]).res = j[2]
              /\ is_upload_expired(World, j[1], UploadExpiry[1], now) = Ok(TRUE)

\* the sweep has judged an upload expired and is about to delete it, while a
\* DELETE of the same upload, its check made, waits for its write()
C28_Witness ==
    /\ cr.sweep.pc = "delete"
    /\ cr.h["h1"].pc = "wait" /\ cr.h["h1"].op = "DELETE"
    /\ UploadPathOf(cr.h["h1"].id) = cr.sweep.paths[1]
    /\ cr.h["h2"].pc = "idle"

\* C29: when list, last_access or delete fails in a sweep pass, the pass is
\* over with that error in the same step: the guard is dropped, the paths the
\* pass deleted before are gone, and the listed paths it had not examined are
\* all still held, expired or not.
C29_SweepAborts ==
    (resp.op = "sweep" /\ "res" \in DOMAIN resp /\ IsErr(resp.res)) =>
        /\ cr.sweep.pc \notin {"list", "check", "delete"}
        /\ cr.lock.writer # "sweep"
        /\ resp.res = Err("io error")
        /\ \A p \in resp.deleted : \A x \in Entries(World) : x[1] # p
        /\ \A i \in 1..Len(resp.left) : \E x \in Entries(World) : x[1] = resp.left[i]

\* a pass has failed after it deleted one upload, and leaves behind a listed
\* upload that is expired
C29_Witness ==
    /\ resp.op = "sweep" /\ "res" \in DOMAIN resp /\ IsErr(resp.res)
    /\ Cardinality(resp.deleted) = 1
    /\ Len(resp.left) = 1
    /\ is_upload_expired(World, resp.left[1], UploadExpiry[1], now) = Ok(TRUE)

\* C30: a sweep pass that fails with a backend error leaves the task
\* running: the task sleeps and starts a further pass 60 seconds later.
C30_TaskSurvivesFailure ==
    [][(cr.sweep.pc \in {"list", "check", "delete"}
          /\ resp'.op = "sweep" /\ "res" \in DOMAIN resp' /\ IsErr(resp'.res))
        => cr'.sweep.pc = "sleeping"]_vars

(***************************************************************************)
(* FairSpecServer: the server under the scheduling tokio gives it.  Time   *)
(* passes; a task that waits in write() is granted the lock once it is the *)
(* first of the queue and the lock is free; a handler that holds a guard   *)
(* finishes its engine calls and drops the guard; the expiry task, once    *)
(* granted, takes its next await.  Nothing obliges a client to send a      *)
(* request.                                                                *)
(*                                                                         *)
(* HandlerGet, HandlerExists, HandlerSave and HandlerDelete are enabled    *)
(* exactly while the handler holds its guard, and each of their steps      *)
(* drops it: their weak fairness is GuardDropped.  SweepStep is enabled    *)
(* exactly inside a pass, and a pass has at most one step to list and two  *)
(* for each listed path: its weak fairness is PassEnds.  Both are stated   *)
(* on the state.                                                           *)
(***************************************************************************)
GuardDropped(t) == []<>(cr.h[t].pc \notin {"read", "write"})

PassEnds == []<>(cr.sweep.pc \notin {"list", "check", "delete"})

FairSpecServer ==
    /\ SpecServer
    /\ WF_vars(Tick60)
    /\ WF_vars(SweepWrite)
    /\ WF_vars(SweepWriteGranted)
    /\ PassEnds
    /\ \A t \in Handlers : WF_vars(HandlerWriteGranted(t)) /\ GuardDropped(t)

\* C26: on a server with an expiry configured, an upload whose last access
\* lies expire_after or more in the past does not stay so for ever: the
\* sweep deletes it, unless it is read or saved again first.
C26_EventuallyEvicted ==
    \A id \in SaveIds :
        (is_upload_expired(World, UploadPathOf(id), UploadExpiry[1], now) = Ok(TRUE))
            ~> (is_upload_expired(World, UploadPathOf(id), UploadExpiry[1], now) # Ok(TRUE))

\* C31: on Memory and on Filesystem, a write of a path that succeeds at time
\* now leaves last_access of the path at now, whether or not the path was
\* stored before, so the object is not expired under a window of one tick
\* when the sweep looks at it before the next tick.
C31_WriteRefreshes ==
    provider \in {"Memory", "Filesystem"} =>
        \A path \in BkPaths, data \in BkData :
            LET o == Provider_write(World, path, data, now, None)
            IN  IsOk(o.res) =>
                    /\ Provider_last_access(o.w, path).res = Ok(Some(now))
                    /\ is_upload_expired(o.w, path, 1, now) = Ok(FALSE)

\* C32: on Memory and on Filesystem, get_upload of an id whose object is
\* stored leaves last_access of the object at the time of the call whatever
\* the key, so also when decryption fails: the object is then not expired
\* under a window of one tick, and the backend holds the same entries with
\* the same bytes as before the call.
C32_GetRefreshes ==
    provider \in {"Memory", "Filesystem"} =>
        \A id \in {x \in ReqIds : StoredAt(World, UploadPathOf(x)) # {}}, key \in KeysTried :
            LET o == get_upload(World, id, key, now)
            IN  /\ Provider_last_access(o.w, UploadPathOf(id)).res = Ok(Some(now))
                /\ is_upload_expired(o.w, UploadPathOf(id), 1, now) = Ok(FALSE)
                /\ Entries(o.w) = Entries(World)

\* a get_upload with a key that does not open the object has failed on the
\* Filesystem backend one tick after the object was written, and the access
\* time of the file is that of the get
C32_Witness ==
    /\ provider = "Filesystem"
    /\ resp.op = "get_upload" /\ IsErr(resp.res)
    /\ resp.id \in DOMAIN saved
    /\ LET f == Drop(Path_join(base_path, UploadPathOf(resp.id)), 1)
       IN  /\ f \in DOMAIN disk.files
           /\ disk.files[f].mtime = 0
           /\ disk.files[f].atime = 1
    /\ now = 1

\* C33: while the object of the latest successful save_upload of an id is
\* stored, the key of every earlier draw of the generator, so every key
\* returned for that id before, fails in get_upload, also when the content
\* saved is the same as before; the key the latest save returned opens it.
C33_OldKeysFail ==
    \A id \in DOMAIN saved :
        /\ get_upload(World, id, saved[id].key, now).res = Ok(saved[id].content)
        /\ \A n \in 1..(saved[id].draw - 1) :
             IsErr(get_upload(World, id, Base64UrlUnpadded_encode_string(generate_key(n)), now).res)

\* the same content has been saved twice under one id, with the first and
\* the second draw, and the key of the first save no longer opens the object
C33_Witness ==
    /\ resp.op = "save_upload" /\ IsOk(resp.res)
    /\ resp.id \in DOMAIN saved
    /\ saved[resp.id].draw = 2
    /\ saved[resp.id].prev = Some(saved[resp.id].content)
    /\ IsErr(get_upload(World, resp.id, Base64UrlUnpadded_encode_string(generate_key(1)), now).res)

\* C34: whenever a DELETE /upload/{id} request finishes its delete_upload
\* and answers 200, the object of id was stored when the delete began, so
\* the request removed it; of two DELETE requests for one id that overlap,
\* at most one answers 200.
C34_DeleteAnswersTruthfully ==
    [][\A t \in Handlers :
          (/\ cr.h[t].pc = "write" /\ cr.h[t].op = "DELETE"
           /\ cr'.h[t].pc = "idle"
           /\ resp'.status = 200)
          => StoredAt(World, UploadPathOf(cr.h[t].id)) # {}]_vars

\* the tasks that wait in write()
Waiting(lock) == {lock.queue[i] : i \in 1..Len(lock.queue)}

\* C35: the engine lock never deadlocks.  Whoever holds a guard is inside
\* its engine call, which ends and drops the guard (a reader is at "read",
\* the writer at "write" or inside a sweep pass); no task that waits in
\* write() holds a guard, so the delete handler has dropped the read guard of
\* its check; the expiry task holds nothing outside a pass, be it asleep or
\* ended by a failed pass; and when tasks wait, either a guard is held by a
\* task that is not waiting or the first of them can be granted the lock.
C35_NoDeadlock ==
    /\ \A t \in cr.lock.readers : t \in Handlers /\ cr.h[t].pc = "read"
    /\ cr.lock.writer \in Handlers => cr.h[cr.lock.writer].pc = "write"
    /\ cr.lock.writer = "sweep" <=> cr.sweep.pc \in {"list", "check", "delete"}
    /\ \A t \in Waiting(cr.lock) : t \notin cr.lock.readers /\ t # cr.lock.writer
    /\ \A t \in Handlers : cr.h[t].pc \in {"checked", "wait"} => t \notin cr.lock.readers
    /\ cr.lock.queue # <<>> =>
          \/ cr.lock.writer # "none"
          \/ cr.lock.readers # {}
          \/ RwLock_write_ready(cr.lock, cr.lock.queue[1])

\* a DELETE has made its check, dropped its read guard and waits in write()
\* behind a GET that reads, after a sweep pass has failed and ended the task
C35_Witness ==
    /\ cr.h["h1"].pc = "wait" /\ cr.h["h1"].op = "DELETE"
    /\ cr.lock.queue = <<"h1">>
    /\ cr.lock.readers = {"h2"}
    /\ cr.sweep.pc = "dead"
    /\ cr.lock.writer = "none"

\* C36: the path the engine hands to the backend for the id of a save_upload,
\* get_upload, upload_exists or delete_upload call lies under uploads/,
\* whatever the id.
C36_UnderUploads ==
    resp.op \in {"save_upload", "get_upload", "upload_exists", "delete_upload"} =>
        Path_starts_with(UploadPathOf(resp.id), upload_path)

(***************************************************************************)
(* Bearer-token authentication (providers/auth.rs) and the routes of the   *)
(* router it guards (main.rs).  The Authorization header of a request is   *)
(* None when the request has none, else its scheme and its credentials.    *)
(***************************************************************************)
\* state_for_token that knows the first configured token only
AuthProvider_state_for_token_FirstOnly(valid_tokens, token) ==
    IF valid_tokens # <<>> /\ valid_tokens[1] = token THEN "Valid" ELSE "Invalid"

\* AuthProvider::state_for_token
AuthProvider_state_for_token(valid_tokens, token) ==
    IF \E i \in 1..Len(valid_tokens) : valid_tokens[i] = token THEN "Valid" ELSE "Invalid"

\* the extractor TypedHeader<Authorization<Bearer>> of valid_auth_middleware:
\* a request without the header, or with a header of another scheme, is
\* rejected by axum with 400 Bad Request before the middleware body runs
TypedHeader_Authorization_Bearer(authorization) ==
    IF ~IsSome(authorization) THEN Err(400)
    ELSE IF authorization[1].scheme # "Bearer" THEN Err(400)
    ELSE Ok(authorization[1].token)

\* AuthProvider::valid_auth_middleware: Ok when next.run(request) is reached
valid_auth_middleware(valid_tokens, authorization) ==
    LET header == TypedHeader_Authorization_Bearer(authorization)
    IN  IF IsErr(header) THEN header
        ELSE IF AuthProvider_state_for_token(valid_tokens, header.val) # "Valid" THEN Err(401)
        ELSE Ok(<<>>)

\* delete_upload_handler run from its check to its answer
delete_upload_handler(w, id) ==
    LET c == delete_upload_handler_check(w, id)
        d == delete_upload_handler_delete(c.w, id)
    IN  IF IsSome(c.res) THEN Outcome(c.w, c.res[1]) ELSE d

\* the salt and the allowed types the server of SpecRouter runs with
RouterSalt == <<"a">>
RouterAllowed == <<Mime("*", "*", "")>>

\* The routes of the router on one request: what the engine is afterwards,
\* the status of the answer, and whether the handler of the route was run.
\* .route("/upload/{id}", get(get_upload_handler)): no middleware
route_get_upload(w, req, t) ==
    LET get == get_upload_handler(w, req.id, req.key, t)
    IN  [w |-> get.w, status |-> get.res.status, handled |-> TRUE, id |-> req.id]

\* .route("/upload", post(create_upload_handler.layer(valid_auth_middleware)))
route_post_upload(w, req, valid_tokens, n, t) ==
    LET auth == valid_auth_middleware(valid_tokens, req.authorization)
        post == create_upload_handler(w, req.body, RouterSalt, RouterAllowed, n, t, None)
    IN  IF IsErr(auth) THEN [w |-> w, status |-> auth.err, handled |-> FALSE, id |-> <<>>]
        ELSE [w |-> post.w,
              status |-> IF IsOk(post.res) THEN 200 ELSE post.res.err.status,
              handled |-> TRUE,
              id |-> IF IsOk(post.res) THEN post.res.val.id ELSE <<>>]

\* .route("/upload/{id}", delete(delete_upload_handler).layer(valid_auth_middleware))
route_delete_upload(w, req, valid_tokens) ==
    LET auth == valid_auth_middleware(valid_tokens, req.authorization)
        del == delete_upload_handler(w, req.id)
    IN  IF IsErr(auth) THEN [w |-> w, status |-> auth.err, handled |-> FALSE, id |-> <<>>]
        ELSE [w |-> del.w, status |-> del.res, handled |-> TRUE, id |-> req.id]

(***************************************************************************)
(* SpecRouter: one server that answers one request after another.  cr      *)
(* holds the configured tokens and the ids the server has issued.          *)
(***************************************************************************)
\* the Authorization headers tried: none, a bearer token that may be
\* configured or not, and credentials of another scheme
Authorizations ==
    {None}
    \cup {Some([scheme |-> "Bearer", token |-> tok]) : tok \in {"t1", "t2", "x"}}
    \cup {Some([scheme |-> "Basic", token |-> "t1"])}

\* the values of --tokens
TokenLists == {<<"t1">>, <<"t1", "t2">>}

RouterBodies == {RawBytes(<<1, 2>>), RawBytes(<<37, 1>>)}

InitRouter ==
    /\ provider \in Providers
    /\ memory = EmptyMap
    /\ disk = DiskInit
    /\ bucket = EmptyMap
    /\ now = 0
    /\ rng = 0
    /\ saved = EmptyMap
    /\ written = EmptyMap
    /\ resp = NoResp
    /\ cr \in {[fn |-> "router", valid_tokens |-> v, ids |-> {}] : v \in TokenLists}

\* the server has answered the request req with the outcome o of its route
Answered(req, o) ==
    /\ Becomes([w |-> o.w])
    /\ resp' = [op |-> req.method, authorization |-> req.authorization,
                status |-> o.status, handled |-> o.handled]
    /\ rng' = IF req.method = "POST" /\ o.handled THEN rng + 1 ELSE rng
    /\ cr' = IF req.method = "POST" /\ o.status = 200
             THEN [cr EXCEPT !.ids = @ \cup {o.id}] ELSE cr
    /\ UNCHANGED <<now, saved, written>>

\* GET /upload/{id}?key=...
RouteGet ==
    \E a \in Authorizations, id \in cr.ids \cup {<<"a">>}, key \in KeysTried :
        LET req == [method |-> "GET", authorization |-> a, id |-> id, key |-> key]
        IN  Answered(req, route_get_upload(World, req, now))

\* POST /upload
RoutePost ==
    /\ rng < MaxUploads
    /\ \E a \in Authorizations, body \in RouterBodies :
        LET req == [method |-> "POST", authorization |-> a, body |-> body]
        IN  Answered(req, route_post_upload(World, req, cr.valid_tokens, rng + 1, now))

\* DELETE /upload/{id}
RouteDelete ==
    \E a \in Authorizations, id \in cr.ids \cup {<<"a">>} :
        LET req == [method |-> "DELETE", authorization |-> a, id |-> id]
        IN  Answered(req, route_delete_upload(World, req, cr.valid_tokens))

NextRouter ==
    \/ RouteGet
    \/ RoutePost
    \/ RouteDelete

SpecRouter == InitRouter /\ [][NextRouter]_vars
\* the request answered last carried a bearer token / a configured one
SentBearer(r) == IsSome(r.authorization) /\ r.authorization[1].scheme = "Bearer"
SentValid(r, valid_tokens) ==
    /\ SentBearer(r)
    /\ r.authorization[1].token \in {valid_tokens[i] : i \in 1..Len(valid_tokens)}

\* C37, as claimed: the handler of POST /upload and DELETE /upload/{id} runs
\* only for a request with a configured bearer token; any other request to
\* them is answered 401 and leaves the backend as it was; the handler of
\* GET /upload/{id} runs whatever the request carries.
C37_TokenRequired ==
    [][/\ resp'.op = "GET" => resp'.handled
       /\ resp'.op \in {"POST", "DELETE"} =>
            /\ resp'.handled <=> SentValid(resp', cr.valid_tokens)
            /\ ~SentValid(resp', cr.valid_tokens) =>
                  /\ World' = World
                  /\ resp'.status = 401]_vars

\* C37, amended: as above, but only a request whose bearer token is not
\* configured is answered 401; a request without a bearer token (no
\* Authorization header, or one of another scheme) is answered 400.
C37_TokenRequiredAmended ==
    [][/\ resp'.op = "GET" => resp'.handled
       /\ resp'.op \in {"POST", "DELETE"} =>
            /\ resp'.handled <=> SentValid(resp', cr.valid_tokens)
            /\ ~SentValid(resp', cr.valid_tokens) =>
                  /\ World' = World
                  /\ resp'.status = IF SentBearer(resp') THEN 401 ELSE 400]_vars

\* a DELETE without an Authorization header has been answered 400 without
\* its handler, while the server stores an upload
C37_Witness ==
    /\ resp.op = "DELETE"
    /\ resp.authorization = None
    /\ resp.status = 400 /\ ~resp.handled
    /\ cr.ids # {}
    /\ Entries(World) # {}


(***************************************************************************)
(* SpecPair: a MemoryStorage (memory) and a FilesystemStorage (disk) that  *)
(* receive the same write and delete calls, with object paths one and two  *)
(* components below uploads/.                                              *)
(***************************************************************************)
\* uploads/a, uploads/b, uploads/x/y and uploads/x/z
PairPaths ==
    {Path_new(<<"u", "p", "l", "o", "a", "d", "s", "/", "a">>),
     Path_new(<<"u", "p", "l", "o", "a", "d", "s", "/", "b">>),
     Path_new(<<"u", "p", "l", "o", "a", "d", "s", "/", "x", "/", "y">>),
     Path_new(<<"u", "p", "l", "o", "a", "d", "s", "/", "x", "/", "z">>)}

\* uploads/ and uploads/x
PairPrefixes ==
    {upload_path, Path_new(<<"u", "p", "l", "o", "a", "d", "s", "/", "x">>)}

MemoryView == [World EXCEPT !.provider = "Memory"]
FilesystemView == [World EXCEPT !.provider = "Filesystem"]

InitPair ==
    /\ provider = "Memory"
    /\ memory = EmptyMap
    /\ disk = DiskInit
    /\ bucket = EmptyMap
    /\ now = 0
    /\ rng = 0
    /\ saved = EmptyMap
    /\ written = EmptyMap
    /\ resp = NoResp
    /\ cr = [fn |-> "pair"]

PairWrite ==
    /\ \E path \in PairPaths, data \in BkData :
         LET m == Provider_write(MemoryView, path, data, now, None)
             f == Provider_write(FilesystemView, path, data, now, None)
         IN  /\ memory' = m.w.memory
             /\ disk' = f.w.disk
             /\ written' = MapPut(written, path, data)
             /\ resp' = [op |-> "write", path |-> path, res |-> m.res, fs |-> f.res]
    /\ UNCHANGED <<provider, bucket, now, rng, saved, cr>>

PairDelete ==
    /\ \E path \in PairPaths :
         LET m == Provider_delete(MemoryView, path)
             f == Provider_delete(FilesystemView, path)
         IN  /\ memory' = m.w.memory
             /\ disk' = f.w.disk
             /\ written' = MapRemove(written, path)
             /\ resp' = [op |-> "delete", path |-> path, res |-> m.res, fs |-> f.res]
    /\ UNCHANGED <<provider, bucket, now, rng, saved, cr>>

NextPair ==
    \/ PairWrite
    \/ PairDelete

SpecPair == InitPair /\ [][NextPair]_vars

\* C38: after the same sequence of write and delete calls, Memory
\* list(prefix) and Filesystem list(prefix) return the same set of paths,
\* and every path either of them returns is a stored object on which
\* last_access and delete succeed, also when object paths lie more than one
\* component below the prefix.
C38_ListsAgree ==
    \A prefix \in PairPrefixes :
        LET m == Provider_list(MemoryView, prefix).res
            f == Provider_list(FilesystemView, prefix).res
        IN  /\ IsOk(m) /\ IsOk(f)
            /\ m.val = f.val
            /\ \A p \in m.val :
                  /\ p \in DOMAIN written
                  /\ IsOk(Provider_last_access(MemoryView, p).res)
                  /\ Provider_delete(MemoryView, p).res = Ok(TRUE)
            /\ \A p \in f.val :
                  /\ p \in DOMAIN written
                  /\ IsOk(Provider_last_access(FilesystemView, p).res)
                  /\ Provider_delete(FilesystemView, p).res = Ok(TRUE)

\* C39: hash_bytes takes the multi-threaded update path exactly for inputs
\* of at least 1 MiB (0x100000 bytes) and the single-threaded path for every
\* shorter input, and in both cases the salt is folded into the hash state
\* after the content: the digest is that of the content followed by the salt.
C39_HashPath ==
    (cr.fn = "hash_bytes" /\ cr.stage = "done") =>
        /\ hash_bytes_path(cr.bytes) =
              IF RunsLen(cr.bytes) >= 1024 * 1024 THEN "update_rayon" ELSE "update"
        /\ cr.out = Ok(Hasher_finalize_to_hex(
                        Hasher_update(Hasher_update(<<>>, cr.bytes),
                                      RunsOf(str_as_bytes(cr.salt)))))

====
